---------------------------- MODULE Spec2Model ----------------------------
(***************************************************************************)
(* ManufacturerBlockAccess command runner of the battery helper:           *)
(* catalog lookup, write frame, block read with polling and time-out,      *)
(* byte-order reversal and bit-field decoding (bqcmd.cpp, utility.cpp,     *)
(* bqcmd.h).  The bus layer (Wire), the clock (millis/delay) and the       *)
(* serial console are the environment: the bus results, the bytes the      *)
(* device answers and the content of uninitialised memory are chosen       *)
(* nondeterministically from small sets.                                   *)
(***************************************************************************)
EXTENDS Integers, Sequences, FiniteSets, TLC

\* ------------------------------------------------------------ constants

MANUFACTURER_BLOCK_ACCESS_COMMAND == 68

SOFTWAREWIRE_BUFSIZE == 32

\* delay(20) after the write transaction (bqcmd.cpp:75).
SEND_SETTLE_MS == 20

\* delay(100) at the end of a successful run (bqcmd.cpp:252).
RUN_SETTLE_MS == 100

\* The polling loop gives up when millis() - start > 10000 (bqcmd.cpp:160).
POLL_TIMEOUT_MS == 10000

\* delay(10) of one polling round (bqcmd.cpp:166).
POLL_DELAY_MS == 10

\* At least 3 bytes must be available after the read request (bqcmd.cpp:147).
MIN_AVAILABLE == 3

\* unsigned long is 32 bits wide on the target: millis() wraps at 2^32.  A
\* clock value is kept as its two 16-bit halves, [hi, lo] standing for
\* hi * 2^16 + lo, and the arithmetic below carries and borrows between them.
HALF_MOD == 65536

\* uint8_t arithmetic wraps at 2^8.
BYTE_MOD == 256

\* Cells of memory the model keeps from the start of the response buffer on:
\* the buffer itself (bufferSize cells) and the stack that follows it.
MemSize == 48

\* A table pointer that is NULL (bitfields of a command without a schema).
NoBitFields == << >>

\* A name pointer that is NULL: no C string holds the character -1.
NULL == << -1 >>

\* safetyAlertBits: one entry per line of the table, in table order (bqcmd.h:125-165).
safetyAlertBits ==
  <<[bitIndex |-> 0, label |-> "CUV", activeValue |-> "Detected", inactiveValue |-> "Not Detected"],
    [bitIndex |-> 1, label |-> "COV", activeValue |-> "Detected", inactiveValue |-> "Not Detected"],
    [bitIndex |-> 2, label |-> "OCC1", activeValue |-> "Detected", inactiveValue |-> "Not Detected"],
    [bitIndex |-> 3, label |-> "OCC2", activeValue |-> "Detected", inactiveValue |-> "Not Detected"],
    [bitIndex |-> 4, label |-> "OCD1", activeValue |-> "Detected", inactiveValue |-> "Not Detected"],
    [bitIndex |-> 5, label |-> "OCD2", activeValue |-> "Detected", inactiveValue |-> "Not Detected"],
    [bitIndex |-> 6, label |-> "RSVD", activeValue |-> "", inactiveValue |-> ""],
    [bitIndex |-> 7, label |-> "AOLDL", activeValue |-> "Detected", inactiveValue |-> "Not Detected"],
    [bitIndex |-> 8, label |-> "RSVD", activeValue |-> "", inactiveValue |-> ""],
    [bitIndex |-> 9, label |-> "ASCCL", activeValue |-> "Detected", inactiveValue |-> "Not Detected"],
    [bitIndex |-> 10, label |-> "RSVD", activeValue |-> "", inactiveValue |-> ""],
    [bitIndex |-> 11, label |-> "ASCDL", activeValue |-> "Detected", inactiveValue |-> "Not Detected"],
    [bitIndex |-> 12, label |-> "OTC", activeValue |-> "Detected", inactiveValue |-> "Not Detected"],
    [bitIndex |-> 13, label |-> "OTD", activeValue |-> "Detected", inactiveValue |-> "Not Detected"],
    [bitIndex |-> 14, label |-> "CUVC", activeValue |-> "Detected", inactiveValue |-> "Not Detected"],
    [bitIndex |-> 15, label |-> "RSVD", activeValue |-> "", inactiveValue |-> ""],
    [bitIndex |-> 16, label |-> "OTF", activeValue |-> "Detected", inactiveValue |-> "Not Detected"],
    [bitIndex |-> 17, label |-> "RSVD", activeValue |-> "", inactiveValue |-> ""],
    [bitIndex |-> 18, label |-> "PTO", activeValue |-> "Detected", inactiveValue |-> "Not Detected"],
    [bitIndex |-> 19, label |-> "PTOS", activeValue |-> "Detected", inactiveValue |-> "Not Detected"],
    [bitIndex |-> 20, label |-> "CTO", activeValue |-> "Detected", inactiveValue |-> "Not Detected"],
    [bitIndex |-> 21, label |-> "CTOS", activeValue |-> "Detected", inactiveValue |-> "Not Detected"],
    [bitIndex |-> 22, label |-> "OC", activeValue |-> "Detected", inactiveValue |-> "Not Detected"],
    [bitIndex |-> 23, label |-> "CHGC", activeValue |-> "Detected", inactiveValue |-> "Not Detected"],
    [bitIndex |-> 24, label |-> "CHGV", activeValue |-> "Detected", inactiveValue |-> "Not Detected"],
    [bitIndex |-> 25, label |-> "PCHGC", activeValue |-> "Detected", inactiveValue |-> "Not Detected"],
    [bitIndex |-> 26, label |-> "UTC", activeValue |-> "Detected", inactiveValue |-> "Not Detected"],
    [bitIndex |-> 27, label |-> "UTD", activeValue |-> "Detected", inactiveValue |-> "Not Detected"],
    [bitIndex |-> 28, label |-> "COVL", activeValue |-> "Detected", inactiveValue |-> "Not Detected"],
    [bitIndex |-> 29, label |-> "OCDL", activeValue |-> "Detected", inactiveValue |-> "Not Detected"],
    [bitIndex |-> 30, label |-> "RSVD", activeValue |-> "", inactiveValue |-> ""],
    [bitIndex |-> 31, label |-> "RSVD", activeValue |-> "", inactiveValue |-> ""]>>

\* safetyStatusBits: one entry per line of the table, in table order (bqcmd.h:167-207).
safetyStatusBits ==
  <<[bitIndex |-> 0, label |-> "CUV", activeValue |-> "Detected", inactiveValue |-> "Not Detected"],
    [bitIndex |-> 1, label |-> "COV", activeValue |-> "Detected", inactiveValue |-> "Not Detected"],
    [bitIndex |-> 2, label |-> "OCC1", activeValue |-> "Detected", inactiveValue |-> "Not Detected"],
    [bitIndex |-> 3, label |-> "OCC2", activeValue |-> "Detected", inactiveValue |-> "Not Detected"],
    [bitIndex |-> 4, label |-> "OCD1", activeValue |-> "Detected", inactiveValue |-> "Not Detected"],
    [bitIndex |-> 5, label |-> "OCD2", activeValue |-> "Detected", inactiveValue |-> "Not Detected"],
    [bitIndex |-> 6, label |-> "AOLD", activeValue |-> "Detected", inactiveValue |-> "Not Detected"],
    [bitIndex |-> 7, label |-> "AOLDL", activeValue |-> "Detected", inactiveValue |-> "Not Detected"],
    [bitIndex |-> 8, label |-> "ASCC", activeValue |-> "Detected", inactiveValue |-> "Not Detected"],
    [bitIndex |-> 9, label |-> "ASCCL", activeValue |-> "Detected", inactiveValue |-> "Not Detected"],
    [bitIndex |-> 10, label |-> "ASCD", activeValue |-> "Detected", inactiveValue |-> "Not Detected"],
    [bitIndex |-> 11, label |-> "ASCDL", activeValue |-> "Detected", inactiveValue |-> "Not Detected"],
    [bitIndex |-> 12, label |-> "OTC", activeValue |-> "Detected", inactiveValue |-> "Not Detected"],
    [bitIndex |-> 13, label |-> "OTD", activeValue |-> "Detected", inactiveValue |-> "Not Detected"],
    [bitIndex |-> 14, label |-> "CUVC", activeValue |-> "Detected", inactiveValue |-> "Not Detected"],
    [bitIndex |-> 15, label |-> "RSVD", activeValue |-> "", inactiveValue |-> ""],
    [bitIndex |-> 16, label |-> "OTF", activeValue |-> "Detected", inactiveValue |-> "Not Detected"],
    [bitIndex |-> 17, label |-> "RSVD", activeValue |-> "", inactiveValue |-> ""],
    [bitIndex |-> 18, label |-> "PTO", activeValue |-> "Detected", inactiveValue |-> "Not Detected"],
    [bitIndex |-> 19, label |-> "RSVD", activeValue |-> "", inactiveValue |-> ""],
    [bitIndex |-> 20, label |-> "CTO", activeValue |-> "Detected", inactiveValue |-> "Not Detected"],
    [bitIndex |-> 21, label |-> "RSVD", activeValue |-> "", inactiveValue |-> ""],
    [bitIndex |-> 22, label |-> "OC", activeValue |-> "Detected", inactiveValue |-> "Not Detected"],
    [bitIndex |-> 23, label |-> "CHGC", activeValue |-> "Detected", inactiveValue |-> "Not Detected"],
    [bitIndex |-> 24, label |-> "CHGV", activeValue |-> "Detected", inactiveValue |-> "Not Detected"],
    [bitIndex |-> 25, label |-> "PCHGC", activeValue |-> "Detected", inactiveValue |-> "Not Detected"],
    [bitIndex |-> 26, label |-> "UTC", activeValue |-> "Detected", inactiveValue |-> "Not Detected"],
    [bitIndex |-> 27, label |-> "UTD", activeValue |-> "Detected", inactiveValue |-> "Not Detected"],
    [bitIndex |-> 28, label |-> "COVL", activeValue |-> "Detected", inactiveValue |-> "Not Detected"],
    [bitIndex |-> 29, label |-> "OCDL", activeValue |-> "Detected", inactiveValue |-> "Not Detected"],
    [bitIndex |-> 30, label |-> "RSVD", activeValue |-> "", inactiveValue |-> ""],
    [bitIndex |-> 31, label |-> "RSVD", activeValue |-> "", inactiveValue |-> ""]>>

\* pfAlertBits: one entry per line of the table, in table order (bqcmd.h:209-249).
pfAlertBits ==
  <<[bitIndex |-> 0, label |-> "SUV", activeValue |-> "Detected", inactiveValue |-> "Not Detected"],
    [bitIndex |-> 1, label |-> "SOV", activeValue |-> "Detected", inactiveValue |-> "Not Detected"],
    [bitIndex |-> 2, label |-> "SOCC", activeValue |-> "Detected", inactiveValue |-> "Not Detected"],
    [bitIndex |-> 3, label |-> "SOCD", activeValue |-> "Detected", inactiveValue |-> "Not Detected"],
    [bitIndex |-> 4, label |-> "SOT", activeValue |-> "Detected", inactiveValue |-> "Not Detected"],
    [bitIndex |-> 5, label |-> "COVL", activeValue |-> "Detected", inactiveValue |-> "Not Detected"],
    [bitIndex |-> 6, label |-> "SOTF", activeValue |-> "Detected", inactiveValue |-> "Not Detected"],
    [bitIndex |-> 7, label |-> "QIM", activeValue |-> "Detected", inactiveValue |-> "Not Detected"],
    [bitIndex |-> 8, label |-> "CB", activeValue |-> "Detected", inactiveValue |-> "Not Detected"],
    [bitIndex |-> 9, label |-> "IMP", activeValue |-> "Detected", inactiveValue |-> "Not Detected"],
    [bitIndex |-> 10, label |-> "CD", activeValue |-> "Detected", inactiveValue |-> "Not Detected"],
    [bitIndex |-> 11, label |-> "VIMR", activeValue |-> "Detected", inactiveValue |-> "Not Detected"],
    [bitIndex |-> 12, label |-> "VIMA", activeValue |-> "Detected", inactiveValue |-> "Not Detected"],
    [bitIndex |-> 13, label |-> "AOLDL", activeValue |-> "Detected", inactiveValue |-> "Not Detected"],
    [bitIndex |-> 14, label |-> "ASCCL", activeValue |-> "Detected", inactiveValue |-> "Not Detected"],
    [bitIndex |-> 15, label |-> "ASCDL", activeValue |-> "Detected", inactiveValue |-> "Not Detected"],
    [bitIndex |-> 16, label |-> "CFETF", activeValue |-> "Detected", inactiveValue |-> "Not Detected"],
    [bitIndex |-> 17, label |-> "DFETF", activeValue |-> "Detected", inactiveValue |-> "Not Detected"],
    [bitIndex |-> 18, label |-> "OCDL", activeValue |-> "Detected", inactiveValue |-> "Not Detected"],
    [bitIndex |-> 19, label |-> "FUSE", activeValue |-> "Detected", inactiveValue |-> "Not Detected"],
    [bitIndex |-> 20, label |-> "AFER", activeValue |-> "Detected", inactiveValue |-> "Not Detected"],
    [bitIndex |-> 21, label |-> "AFEC", activeValue |-> "Detected", inactiveValue |-> "Not Detected"],
    [bitIndex |-> 22, label |-> "2LVL", activeValue |-> "Detected", inactiveValue |-> "Not Detected"],
    [bitIndex |-> 23, label |-> "RSVD", activeValue |-> "", inactiveValue |-> ""],
    [bitIndex |-> 24, label |-> "RSVD", activeValue |-> "", inactiveValue |-> ""],
    [bitIndex |-> 25, label |-> "RSVD", activeValue |-> "", inactiveValue |-> ""],
    [bitIndex |-> 26, label |-> "RSVD", activeValue |-> "", inactiveValue |-> ""],
    [bitIndex |-> 27, label |-> "RSVD", activeValue |-> "", inactiveValue |-> ""],
    [bitIndex |-> 28, label |-> "TS1", activeValue |-> "Detected", inactiveValue |-> "Not Detected"],
    [bitIndex |-> 29, label |-> "TS2", activeValue |-> "Detected", inactiveValue |-> "Not Detected"],
    [bitIndex |-> 30, label |-> "TS3", activeValue |-> "Detected", inactiveValue |-> "Not Detected"],
    [bitIndex |-> 31, label |-> "TS4", activeValue |-> "Detected", inactiveValue |-> "Not Detected"]>>

\* pfStatusBits: one entry per line of the table, in table order (bqcmd.h:251-291).
pfStatusBits ==
  <<[bitIndex |-> 0, label |-> "SUV", activeValue |-> "Detected", inactiveValue |-> "Not Detected"],
    [bitIndex |-> 1, label |-> "SOV", activeValue |-> "Detected", inactiveValue |-> "Not Detected"],
    [bitIndex |-> 2, label |-> "SOCC", activeValue |-> "Detected", inactiveValue |-> "Not Detected"],
    [bitIndex |-> 3, label |-> "SOCD", activeValue |-> "Detected", inactiveValue |-> "Not Detected"],
    [bitIndex |-> 4, label |-> "SOT", activeValue |-> "Detected", inactiveValue |-> "Not Detected"],
    [bitIndex |-> 5, label |-> "COVL", activeValue |-> "Detected", inactiveValue |-> "Not Detected"],
    [bitIndex |-> 6, label |-> "SOTF", activeValue |-> "Detected", inactiveValue |-> "Not Detected"],
    [bitIndex |-> 7, label |-> "QIM", activeValue |-> "Detected", inactiveValue |-> "Not Detected"],
    [bitIndex |-> 8, label |-> "CB", activeValue |-> "Detected", inactiveValue |-> "Not Detected"],
    [bitIndex |-> 9, label |-> "IMP", activeValue |-> "Detected", inactiveValue |-> "Not Detected"],
    [bitIndex |-> 10, label |-> "CD", activeValue |-> "Detected", inactiveValue |-> "Not Detected"],
    [bitIndex |-> 11, label |-> "VIMR", activeValue |-> "Detected", inactiveValue |-> "Not Detected"],
    [bitIndex |-> 12, label |-> "VIMA", activeValue |-> "Detected", inactiveValue |-> "Not Detected"],
    [bitIndex |-> 13, label |-> "AOLDL", activeValue |-> "Detected", inactiveValue |-> "Not Detected"],
    [bitIndex |-> 14, label |-> "ASCCL", activeValue |-> "Detected", inactiveValue |-> "Not Detected"],
    [bitIndex |-> 15, label |-> "ASCDL", activeValue |-> "Detected", inactiveValue |-> "Not Detected"],
    [bitIndex |-> 16, label |-> "CFETF", activeValue |-> "Detected", inactiveValue |-> "Not Detected"],
    [bitIndex |-> 17, label |-> "DFETF", activeValue |-> "Detected", inactiveValue |-> "Not Detected"],
    [bitIndex |-> 18, label |-> "OCDL", activeValue |-> "Detected", inactiveValue |-> "Not Detected"],
    [bitIndex |-> 19, label |-> "FUSE", activeValue |-> "Detected", inactiveValue |-> "Not Detected"],
    [bitIndex |-> 20, label |-> "AFER", activeValue |-> "Detected", inactiveValue |-> "Not Detected"],
    [bitIndex |-> 21, label |-> "AFEC", activeValue |-> "Detected", inactiveValue |-> "Not Detected"],
    [bitIndex |-> 22, label |-> "2LVL", activeValue |-> "Detected", inactiveValue |-> "Not Detected"],
    [bitIndex |-> 23, label |-> "PTC", activeValue |-> "Detected", inactiveValue |-> "Not Detected"],
    [bitIndex |-> 24, label |-> "IFC", activeValue |-> "Detected", inactiveValue |-> "Not Detected"],
    [bitIndex |-> 25, label |-> "RSVD", activeValue |-> "", inactiveValue |-> ""],
    [bitIndex |-> 26, label |-> "DFW", activeValue |-> "Detected", inactiveValue |-> "Not Detected"],
    [bitIndex |-> 27, label |-> "RSVD", activeValue |-> "", inactiveValue |-> ""],
    [bitIndex |-> 28, label |-> "TS1", activeValue |-> "Detected", inactiveValue |-> "Not Detected"],
    [bitIndex |-> 29, label |-> "TS2", activeValue |-> "Detected", inactiveValue |-> "Not Detected"],
    [bitIndex |-> 30, label |-> "TS3", activeValue |-> "Detected", inactiveValue |-> "Not Detected"],
    [bitIndex |-> 31, label |-> "TS4", activeValue |-> "Detected", inactiveValue |-> "Not Detected"]>>

\* operationStatusBits: one entry per line of the table, in table order (bqcmd.h:293-333).
operationStatusBits ==
  <<[bitIndex |-> 0, label |-> "PRES", activeValue |-> "Active", inactiveValue |-> "Inactive"],
    [bitIndex |-> 1, label |-> "DSG", activeValue |-> "Active", inactiveValue |-> "Inactive"],
    [bitIndex |-> 2, label |-> "CHG", activeValue |-> "Active", inactiveValue |-> "Inactive"],
    [bitIndex |-> 3, label |-> "PCHG", activeValue |-> "Active", inactiveValue |-> "Inactive"],
    [bitIndex |-> 4, label |-> "RSVD", activeValue |-> "", inactiveValue |-> ""],
    [bitIndex |-> 5, label |-> "FUSE", activeValue |-> "Active", inactiveValue |-> "Inactive"],
    [bitIndex |-> 6, label |-> "RSVD", activeValue |-> "", inactiveValue |-> ""],
    [bitIndex |-> 7, label |-> "BTP_INT", activeValue |-> "Active", inactiveValue |-> "Inactive"],
    [bitIndex |-> 8, label |-> "SEC0", activeValue |-> "", inactiveValue |-> ""],
    [bitIndex |-> 9, label |-> "SEC1", activeValue |-> "", inactiveValue |-> ""],
    [bitIndex |-> 10, label |-> "SDV", activeValue |-> "Active", inactiveValue |-> "Inactive"],
    [bitIndex |-> 11, label |-> "SS", activeValue |-> "Active", inactiveValue |-> "Inactive"],
    [bitIndex |-> 12, label |-> "PF", activeValue |-> "Active", inactiveValue |-> "Inactive"],
    [bitIndex |-> 13, label |-> "XDSG", activeValue |-> "Active", inactiveValue |-> "Inactive"],
    [bitIndex |-> 14, label |-> "XCHG", activeValue |-> "Active", inactiveValue |-> "Inactive"],
    [bitIndex |-> 15, label |-> "SLEEP", activeValue |-> "Active", inactiveValue |-> "Inactive"],
    [bitIndex |-> 16, label |-> "SDM", activeValue |-> "Active", inactiveValue |-> "Inactive"],
    [bitIndex |-> 17, label |-> "LED", activeValue |-> "On", inactiveValue |-> "Off"],
    [bitIndex |-> 18, label |-> "AUTH", activeValue |-> "Active", inactiveValue |-> "Inactive"],
    [bitIndex |-> 19, label |-> "CALM", activeValue |-> "Active", inactiveValue |-> "Inactive"],
    [bitIndex |-> 20, label |-> "CAL", activeValue |-> "Available", inactiveValue |-> "Not available"],
    [bitIndex |-> 21, label |-> "CAL_OFFSET", activeValue |-> "Available", inactiveValue |-> "Not available"],
    [bitIndex |-> 22, label |-> "XL", activeValue |-> "Active", inactiveValue |-> "Inactive"],
    [bitIndex |-> 23, label |-> "SLEEPM", activeValue |-> "Active", inactiveValue |-> "Inactive"],
    [bitIndex |-> 24, label |-> "INIT", activeValue |-> "Active", inactiveValue |-> "Inactive"],
    [bitIndex |-> 25, label |-> "SMBLCAL", activeValue |-> "Started", inactiveValue |-> "Not started"],
    [bitIndex |-> 26, label |-> "SLPAD", activeValue |-> "Active", inactiveValue |-> "Inactive"],
    [bitIndex |-> 27, label |-> "SLPCC", activeValue |-> "Active", inactiveValue |-> "Inactive"],
    [bitIndex |-> 28, label |-> "CB", activeValue |-> "Active", inactiveValue |-> "Inactive"],
    [bitIndex |-> 29, label |-> "EMSHUT", activeValue |-> "Active", inactiveValue |-> "Inactive"],
    [bitIndex |-> 30, label |-> "RSVD", activeValue |-> "", inactiveValue |-> ""],
    [bitIndex |-> 31, label |-> "RSVD", activeValue |-> "", inactiveValue |-> ""]>>

\* A table of 16 entries in which the index 14 stands twice and 15 is missing.
ManufacturingStatusBits_DuplicateIndex ==
  [i \in 1..16 |->
     [bitIndex |-> IF i = 16 THEN 14 ELSE i - 1, label |-> "RSVD",
      activeValue |-> "Enabled", inactiveValue |-> "Disabled"]]

\* ManufacturingStatusBits: one entry per line of the table, in table order (bqcmd.h:335-355).
ManufacturingStatusBits ==
  <<[bitIndex |-> 0, label |-> "PCHG", activeValue |-> "Active", inactiveValue |-> "Disabled"],
    [bitIndex |-> 1, label |-> "CHG", activeValue |-> "Active", inactiveValue |-> "Disabled"],
    [bitIndex |-> 2, label |-> "DSG", activeValue |-> "Active", inactiveValue |-> "Disabled"],
    [bitIndex |-> 3, label |-> "GAUGE", activeValue |-> "Enabled", inactiveValue |-> "Disabled"],
    [bitIndex |-> 4, label |-> "FET", activeValue |-> "Enabled", inactiveValue |-> "Disabled"],
    [bitIndex |-> 5, label |-> "LF", activeValue |-> "Enabled", inactiveValue |-> "Disabled"],
    [bitIndex |-> 6, label |-> "PF", activeValue |-> "Enabled", inactiveValue |-> "Disabled"],
    [bitIndex |-> 7, label |-> "BBR", activeValue |-> "Enabled", inactiveValue |-> "Disabled"],
    [bitIndex |-> 8, label |-> "FUSE", activeValue |-> "Enabled", inactiveValue |-> "Disabled"],
    [bitIndex |-> 9, label |-> "LED", activeValue |-> "On", inactiveValue |-> "Off"],
    [bitIndex |-> 10, label |-> "RSVD", activeValue |-> "Enabled", inactiveValue |-> "Disabled"],
    [bitIndex |-> 11, label |-> "RSVD", activeValue |-> "Enabled", inactiveValue |-> "Disabled"],
    [bitIndex |-> 12, label |-> "RSVD", activeValue |-> "Enabled", inactiveValue |-> "Disabled"],
    [bitIndex |-> 13, label |-> "RSVD", activeValue |-> "Enabled", inactiveValue |-> "Disabled"],
    [bitIndex |-> 14, label |-> "LT_TS", activeValue |-> "Enabled", inactiveValue |-> "Disabled"],
    [bitIndex |-> 15, label |-> "CALTS", activeValue |-> "Enabled", inactiveValue |-> "Disabled"]>>

\* The catalog, in table order; name holds the characters of the C string.
MBACommandsInfo ==
  <<
    \* DeviceType (bqcmd.h:359)
    [cmd |-> 1, data |-> <<0, 0, 0, 0, 0, 0, 0, 0>>, dataLength |-> 0,
     name |-> <<68, 101, 118, 105, 99, 101, 84, 121, 112, 101>>,
     access |-> "R", displayFormat |-> "FORMAT_HEX",
     bitfields |-> NoBitFields, bitfieldCount |-> 0],
    \* FirmwareVersion (bqcmd.h:360)
    [cmd |-> 2, data |-> <<0, 0, 0, 0, 0, 0, 0, 0>>, dataLength |-> 0,
     name |-> <<70, 105, 114, 109, 119, 97, 114, 101, 86, 101, 114, 115, 105, 111, 110>>,
     access |-> "R", displayFormat |-> "FORMAT_HEX",
     bitfields |-> NoBitFields, bitfieldCount |-> 0],
    \* HardwareVersion (bqcmd.h:361)
    [cmd |-> 3, data |-> <<0, 0, 0, 0, 0, 0, 0, 0>>, dataLength |-> 0,
     name |-> <<72, 97, 114, 100, 119, 97, 114, 101, 86, 101, 114, 115, 105, 111, 110>>,
     access |-> "R", displayFormat |-> "FORMAT_HEX",
     bitfields |-> NoBitFields, bitfieldCount |-> 0],
    \* PermanentFailure (bqcmd.h:362)
    [cmd |-> 36, data |-> <<0, 0, 0, 0, 0, 0, 0, 0>>, dataLength |-> 0,
     name |-> <<80, 101, 114, 109, 97, 110, 101, 110, 116, 70, 97, 105, 108, 117, 114, 101>>,
     access |-> "W", displayFormat |-> "FORMAT_HEX",
     bitfields |-> NoBitFields, bitfieldCount |-> 0],
    \* LifetimeDataReset (bqcmd.h:363)
    [cmd |-> 40, data |-> <<0, 0, 0, 0, 0, 0, 0, 0>>, dataLength |-> 0,
     name |-> <<76, 105, 102, 101, 116, 105, 109, 101, 68, 97, 116, 97, 82, 101, 115, 101, 116>>,
     access |-> "W", displayFormat |-> "FORMAT_HEX",
     bitfields |-> NoBitFields, bitfieldCount |-> 0],
    \* PermanentFailureDataReset (bqcmd.h:364)
    [cmd |-> 41, data |-> <<0, 0, 0, 0, 0, 0, 0, 0>>, dataLength |-> 0,
     name |-> <<80, 101, 114, 109, 97, 110, 101, 110, 116, 70, 97, 105, 108, 117, 114, 101, 68, 97, 116, 97, 82, 101, 115, 101, 116>>,
     access |-> "W", displayFormat |-> "FORMAT_HEX",
     bitfields |-> NoBitFields, bitfieldCount |-> 0],
    \* BlackBoxRecorderReset (bqcmd.h:365)
    [cmd |-> 42, data |-> <<0, 0, 0, 0, 0, 0, 0, 0>>, dataLength |-> 0,
     name |-> <<66, 108, 97, 99, 107, 66, 111, 120, 82, 101, 99, 111, 114, 100, 101, 114, 82, 101, 115, 101, 116>>,
     access |-> "W", displayFormat |-> "FORMAT_HEX",
     bitfields |-> NoBitFields, bitfieldCount |-> 0],
    \* SealDevice (bqcmd.h:366)
    [cmd |-> 48, data |-> <<0, 0, 0, 0, 0, 0, 0, 0>>, dataLength |-> 0,
     name |-> <<83, 101, 97, 108, 68, 101, 118, 105, 99, 101>>,
     access |-> "W", displayFormat |-> "FORMAT_HEX",
     bitfields |-> NoBitFields, bitfieldCount |-> 0],
    \* DeviceReset (bqcmd.h:367)
    [cmd |-> 65, data |-> <<0, 0, 0, 0, 0, 0, 0, 0>>, dataLength |-> 0,
     name |-> <<68, 101, 118, 105, 99, 101, 82, 101, 115, 101, 116>>,
     access |-> "W", displayFormat |-> "FORMAT_HEX",
     bitfields |-> NoBitFields, bitfieldCount |-> 0],
    \* SafetyAlert (bqcmd.h:368)
    [cmd |-> 80, data |-> <<0, 0, 0, 0, 0, 0, 0, 0>>, dataLength |-> 0,
     name |-> <<83, 97, 102, 101, 116, 121, 65, 108, 101, 114, 116>>,
     access |-> "R", displayFormat |-> "FORMAT_BINARY",
     bitfields |-> safetyAlertBits, bitfieldCount |-> 32],
    \* SafetyStatus (bqcmd.h:369)
    [cmd |-> 81, data |-> <<0, 0, 0, 0, 0, 0, 0, 0>>, dataLength |-> 0,
     name |-> <<83, 97, 102, 101, 116, 121, 83, 116, 97, 116, 117, 115>>,
     access |-> "R", displayFormat |-> "FORMAT_BINARY",
     bitfields |-> safetyStatusBits, bitfieldCount |-> 32],
    \* PFAlert (bqcmd.h:370)
    [cmd |-> 82, data |-> <<0, 0, 0, 0, 0, 0, 0, 0>>, dataLength |-> 0,
     name |-> <<80, 70, 65, 108, 101, 114, 116>>,
     access |-> "R", displayFormat |-> "FORMAT_BINARY",
     bitfields |-> pfAlertBits, bitfieldCount |-> 32],
    \* PFStatus (bqcmd.h:371)
    [cmd |-> 83, data |-> <<0, 0, 0, 0, 0, 0, 0, 0>>, dataLength |-> 0,
     name |-> <<80, 70, 83, 116, 97, 116, 117, 115>>,
     access |-> "R", displayFormat |-> "FORMAT_BINARY",
     bitfields |-> pfStatusBits, bitfieldCount |-> 32],
    \* OperationStatus (bqcmd.h:372)
    [cmd |-> 84, data |-> <<0, 0, 0, 0, 0, 0, 0, 0>>, dataLength |-> 0,
     name |-> <<79, 112, 101, 114, 97, 116, 105, 111, 110, 83, 116, 97, 116, 117, 115>>,
     access |-> "R", displayFormat |-> "FORMAT_BINARY",
     bitfields |-> operationStatusBits, bitfieldCount |-> 32],
    \* ManufacturingStatus (bqcmd.h:373)
    [cmd |-> 87, data |-> <<0, 0, 0, 0, 0, 0, 0, 0>>, dataLength |-> 0,
     name |-> <<77, 97, 110, 117, 102, 97, 99, 116, 117, 114, 105, 110, 103, 83, 116, 97, 116, 117, 115>>,
     access |-> "R", displayFormat |-> "FORMAT_BINARY",
     bitfields |-> ManufacturingStatusBits, bitfieldCount |-> 16],
    \* UnsealKey1 (bqcmd.h:374)
    [cmd |-> 32480, data |-> <<0, 0, 0, 0, 0, 0, 0, 0>>, dataLength |-> 0,
     name |-> <<85, 110, 115, 101, 97, 108, 75, 101, 121, 49>>,
     access |-> "W", displayFormat |-> "FORMAT_HEX",
     bitfields |-> NoBitFields, bitfieldCount |-> 0],
    \* UnsealKey2 (bqcmd.h:375)
    [cmd |-> 52447, data |-> <<0, 0, 0, 0, 0, 0, 0, 0>>, dataLength |-> 0,
     name |-> <<85, 110, 115, 101, 97, 108, 75, 101, 121, 50>>,
     access |-> "W", displayFormat |-> "FORMAT_HEX",
     bitfields |-> NoBitFields, bitfieldCount |-> 0],
    \* PF2RegisterRead (bqcmd.h:376)
    [cmd |-> 16482, data |-> <<0, 0, 0, 0, 0, 0, 0, 0>>, dataLength |-> 0,
     name |-> <<80, 70, 50, 82, 101, 103, 105, 115, 116, 101, 114, 82, 101, 97, 100>>,
     access |-> "R", displayFormat |-> "FORMAT_HEX",
     bitfields |-> NoBitFields, bitfieldCount |-> 0],
    \* ClearPF2 (bqcmd.h:378)
    [cmd |-> 16482, data |-> <<1, 35, 69, 103, 0, 0, 0, 0>>, dataLength |-> 4,
     name |-> <<67, 108, 101, 97, 114, 80, 70, 50>>,
     access |-> "W", displayFormat |-> "FORMAT_HEX",
     bitfields |-> NoBitFields, bitfieldCount |-> 0]
  >>

\* ------------------------------------------------------------ inputs

\* 7-bit bus addresses the caller passes.
Addresses == {11, 22}

\* "devicetype": DeviceType in another letter case.
Name_devicetype == <<100, 101, 118, 105, 99, 101, 116, 121, 112, 101>>

\* "PermanentFailureData": a strict prefix of PermanentFailureDataReset.
Name_PermanentFailureData ==
  <<80, 101, 114, 109, 97, 110, 101, 110, 116, 70, 97, 105, 108, 117, 114,
    101, 68, 97, 116, 97>>

\* "DeviceType" (bqcmd.h:359)
Name_DeviceType == <<68, 101, 118, 105, 99, 101, 84, 121, 112, 101>>

\* "SealDevice" (bqcmd.h:366)
Name_SealDevice == <<83, 101, 97, 108, 68, 101, 118, 105, 99, 101>>

\* "SafetyAlert" (bqcmd.h:368)
Name_SafetyAlert == <<83, 97, 102, 101, 116, 121, 65, 108, 101, 114, 116>>

\* "ManufacturingStatus" (bqcmd.h:373)
Name_ManufacturingStatus ==
  <<77, 97, 110, 117, 102, 97, 99, 116, 117, 114, 105, 110,
    103, 83, 116, 97, 116, 117, 115>>

\* "UnsealKey2" (bqcmd.h:375)
Name_UnsealKey2 == <<85, 110, 115, 101, 97, 108, 75, 101, 121, 50>>

\* "PF2RegisterRead" (bqcmd.h:376)
Name_PF2RegisterRead ==
  <<80, 70, 50, 82, 101, 103, 105, 115, 116, 101, 114, 82,
    101, 97, 100>>

\* "ClearPF2" (bqcmd.h:378)
Name_ClearPF2 == <<67, 108, 101, 97, 114, 80, 70, 50>>

\* The names the caller passes: one catalog name of each kind (read without
\* schema, write without payload, read with a 32-bit and with a 16-bit
\* schema, a sub-command with a high byte above 0x7F, the two entries that
\* share sub-command 0x4062, one of them with a payload), two names that are
\* in no catalog entry, and the null pointer.
CmdNames ==
  {Name_DeviceType, Name_SealDevice, Name_SafetyAlert,
   Name_ManufacturingStatus, Name_UnsealKey2, Name_PF2RegisterRead,
   Name_ClearPF2, Name_devicetype, Name_PermanentFailureData, NULL}

\* The smaller sets of the specification that is checked for termination.
FairAddresses == {11}

FairCmdNames == {Name_DeviceType, Name_SealDevice, Name_devicetype}

\* Values of millis() when a command starts; the second wraps while polling.
ClockStarts ==
  {[hi |-> 0, lo |-> 0], [hi |-> HALF_MOD - 1, lo |-> HALF_MOD - 5000]}

\* Results of Wire.endTransmission(): 0 success, 1..5 the documented errors,
\* 6 any other value.
ResultCodes == 0..6

\* 1, 2, ..., n
Ramp(n) == [i \in 1..n |-> i]

\* What the device answers to one read request: rx is in the bus layer's
\* buffer when requestFrom returns, late may still arrive while the engine
\* polls.  The first byte is the declared block length.
Responses ==
  { [rx |-> << >>,                       late |-> << >>],
    [rx |-> <<2, 1>>,                    late |-> << >>],
    [rx |-> <<6, 80>>,                   late |-> <<0, 1, 2, 4, 128>>],
    [rx |-> <<0, 1, 0>>,                 late |-> << >>],
    [rx |-> <<2, 1, 0, 10, 11>>,         late |-> << >>],
    [rx |-> <<4, 1, 0, 10, 11>>,         late |-> << >>],
    [rx |-> <<6, 80, 0, 1, 2, 4, 128>>,  late |-> << >>],
    [rx |-> <<6, 80, 0>>,                late |-> << >>],
    [rx |-> <<3, 80, 0, 129>>,           late |-> << >>],
    [rx |-> <<6, 80, 0, 1>>,             late |-> <<2, 4, 128>>],
    [rx |-> <<40, 1, 0, 10, 11>>,        late |-> << >>],
    [rx |-> <<32>> \o Ramp(31),          late |-> << >>],
    [rx |-> <<40>> \o Ramp(31),          late |-> << >>] }

\* Values an uninitialised byte of the stack may turn out to hold.
GarbageBytes == {0, 255}

\* A memory cell that has not been written since the buffer was allocated.
UNINIT == -1

\* No helper function is being called on its own.
NoCall == [fn |-> "none"]

\* ------------------------------------------------------------ state

VARIABLES
  literalsMerged, \* the build gave equal string literals one address
  pc,             \* position of the single caller
  trail,          \* the steps this invocation has taken, in order
  address,        \* runMBACommand's address argument
  cmdName,        \* runMBACommand's cmdName argument
  cmdInfo,        \* index of the catalog entry found, 0 for NULL
  ret,            \* runMBACommand's result: "none" while it runs
  sendRet,        \* sendMBACommand's result: "none" until it returned
  readRet,        \* readMBACommand's result: "none" until it returned
  wire,           \* bus operations and delays, in order
  serial,         \* lines printed on the serial console, in order
  now,            \* millis()
  bufferSize,     \* readMBACommand's bufferSize argument, 0 before the call
  wireRx,         \* the bus layer's receive buffer
  wireLate,       \* bytes of the answer that have not arrived yet
  rxPos,          \* bytes taken from the receive buffer with Wire.read()
  len,            \* the declared block length, -1 until it is read
  start,          \* millis() when the length byte was read
  waited,         \* milliseconds spent in the polling loop's delay(10)
  mem,            \* memory from &buffer[0] on, << >> while there is no buffer
  copied,         \* available_bytes: the bytes the copy loop stored
  touched,        \* indices reverseBufferEndian has written
  direct          \* a helper function called on its own: its arguments and
                  \* what it gave, NoCall otherwise

\* The state of a call of the runner or of the engine.
engineVars ==
  <<literalsMerged, pc, trail, address, cmdName, cmdInfo, ret, sendRet,
    readRet, wire, serial, now, bufferSize, wireRx, wireLate, rxPos, len,
    start, waited, mem, copied, touched>>

vars == <<engineVars, direct>>

readVars == <<bufferSize, wireRx, wireLate, rxPos, len, start, waited>>

bufVars == <<mem, copied, touched>>

callVars == <<address, cmdName, cmdInfo>>

\* ------------------------------------------------------------ events

WireEv(op, a, b) == [op |-> op, a |-> a, b |-> b]

Begin(addr) == WireEv("beginTransmission", addr, 0)

Write(byte) == WireEv("write", byte, 0)

\* sendStop is 1 for endTransmission(), 0 for endTransmission(false).
End(sendStop, result) == WireEv("endTransmission", sendStop, result)

Request(addr, quantity) == WireEv("requestFrom", addr, quantity)

Delay(ms) == WireEv("delay", ms, 0)

\* One printed line: k its fixed text, n the number and bytes the data
\* printed in it, t the text taken from a table.
Line(k, n, bytes, t) == [k |-> k, n |-> n, bytes |-> bytes, t |-> t]

Text(k) == Line(k, 0, << >>, "")

Blank == Text("")

\* ------------------------------------------------------------ helpers

lowByte(w) == w % BYTE_MOD

highByte(w) == (w \div BYTE_MOD) % BYTE_MOD

Min(a, b) == IF a < b THEN a ELSE b

\* delay(ms) on the 32-bit millisecond clock, ms < 2^16.
ClockAfter(t, ms) ==
  [hi |-> (t.hi + ((t.lo + ms) \div HALF_MOD)) % HALF_MOD,
   lo |-> (t.lo + ms) % HALF_MOD]

\* millis() - start in unsigned long arithmetic.
Elapsed(t, t0) ==
  [hi |-> (t.hi - t0.hi - (IF t.lo < t0.lo THEN 1 ELSE 0)) % HALF_MOD,
   lo |-> (t.lo - t0.lo) % HALF_MOD]

RECURSIVE DelayTotal(_)
\* The milliseconds the delays among events take.
DelayTotal(events) ==
  IF events = << >> THEN 0
  ELSE (IF Head(events).op = "delay" THEN Head(events).a ELSE 0)
         + DelayTotal(Tail(events))

\* The time-out test written as millis() > start + 10000: the sum wraps.
TimedOut_SumWraps(t, t0) ==
  LET limit == ClockAfter(t0, POLL_TIMEOUT_MS) IN
  t.hi > limit.hi \/ (t.hi = limit.hi /\ t.lo > limit.lo)

\* millis() - start > 10000
TimedOut(t, t0) ==
  Elapsed(t, t0).hi > 0 \/ Elapsed(t, t0).lo > POLL_TIMEOUT_MS

\* The character at 1-based position i of a C string, 0 at its terminator.
CharAt(s, i) == IF i <= Len(s) THEN s[i] ELSE 0

RECURSIVE strcmpFrom(_, _, _)
strcmpFrom(a, b, i) ==
  IF CharAt(a, i) # CharAt(b, i) THEN CharAt(a, i) - CharAt(b, i)
  ELSE IF CharAt(a, i) = 0 THEN 0
  ELSE strcmpFrom(a, b, i + 1)

\* strcmp replaced by a comparison that ignores the letter case (strcasecmp).
strcmp_IgnoreCase(a, b) ==
  LET lower(c) == IF c \in 65..90 THEN c + 32 ELSE c IN
  IF Len(a) = Len(b) /\ \A k \in 1..Len(a) : lower(a[k]) = lower(b[k])
  THEN 0 ELSE 1

\* strcmp replaced by strncmp over the length of the entry's name: the
\* input only has to begin with it.
strcmp_EntryPrefix(a, b) ==
  IF Len(b) >= Len(a) /\ SubSeq(b, 1, Len(a)) = a THEN 0 ELSE 1

strcmp(a, b) == strcmpFrom(a, b, 1)

RECURSIVE LookupFrom(_, _)
LookupFrom(name, i) ==
  IF i > Len(MBACommandsInfo) THEN 0
  ELSE IF strcmp(MBACommandsInfo[i].name, name) = 0 THEN i
  ELSE LookupFrom(name, i + 1)

\* The index of the first entry whose name equals name, 0 (NULL) if none.
getMBACommandInfoByName(name) ==
  IF name = NULL THEN 0 ELSE LookupFrom(name, 1)

\* cmdInfo->access != "W" compares two pointers.  Whether the literal "W" of
\* the runner and the "W" of the table are one object is the build's choice.
AccessIsNotW(ci) ==
  IF literalsMerged THEN MBACommandsInfo[ci].access # "W" ELSE TRUE

\* SendFrame with the sub-command's high byte sent first.
SendFrame_HighByteFirst(ci) ==
  LET c == MBACommandsInfo[ci] IN
  << MANUFACTURER_BLOCK_ACCESS_COMMAND,
     (2 + c.dataLength) % BYTE_MOD,
     highByte(c.cmd),
     lowByte(c.cmd) >>
    \o [i \in 1..c.dataLength |-> c.data[i]]

\* The bytes sendMBACommand writes between beginTransmission and
\* endTransmission.
SendFrame(ci) ==
  LET c == MBACommandsInfo[ci] IN
  << MANUFACTURER_BLOCK_ACCESS_COMMAND,
     (2 + c.dataLength) % BYTE_MOD,
     lowByte(c.cmd),
     highByte(c.cmd) >>
    \o [i \in 1..c.dataLength |-> c.data[i]]

\* SendWire with the delay placed after the result test, on the success
\* path only.
SendWire_DelayOnSuccessOnly(addr, ci, result) ==
  <<Begin(addr)>>
    \o [i \in 1..Len(SendFrame(ci)) |-> Write(SendFrame(ci)[i])]
    \o <<End(1, result)>>
    \o (IF result = 0 THEN <<Delay(SEND_SETTLE_MS)>> ELSE << >>)

\* Everything sendMBACommand does on the bus and the clock.
SendWire(addr, ci, result) ==
  <<Begin(addr)>>
    \o [i \in 1..Len(SendFrame(ci)) |-> Write(SendFrame(ci)[i])]
    \o <<End(1, result), Delay(SEND_SETTLE_MS)>>

\* The pause left out.
SettleWire_Skipped == << >>

\* The pause that ends a successful run (bqcmd.cpp:252).
SettleWire == <<Delay(RUN_SETTLE_MS)>>

\* Wire.available() < 3 after the read request (bqcmd.cpp:147).
NoData_AnyByte(available) == available < 1

NoData(available) == available < MIN_AVAILABLE

\* printMBACommandError whose default case prints nothing but the line end.
printMBACommandError_SilentDefault(result) ==
  CASE result = 1 -> Text("Error: Data too long to fit in transmit buffer.")
    [] result = 2 -> Text("Error: Received NACK on transmit of address.")
    [] result = 3 -> Text("Error: Received NACK on transmit of data.")
    [] result = 4 -> Text("Error: Other error occurred.")
    [] result = 5 -> Text("Error: Timeout occurred.")
    [] OTHER -> Blank

\* printMBACommandError with the texts of the two NACK cases exchanged.
printMBACommandError_NacksSwapped(result) ==
  CASE result = 1 -> Text("Error: Data too long to fit in transmit buffer.")
    [] result = 2 -> Text("Error: Received NACK on transmit of data.")
    [] result = 3 -> Text("Error: Received NACK on transmit of address.")
    [] result = 4 -> Text("Error: Other error occurred.")
    [] result = 5 -> Text("Error: Timeout occurred.")
    [] OTHER -> Text("Error: Unknown error code.")

printMBACommandError(result) ==
  CASE result = 1 -> Text("Error: Data too long to fit in transmit buffer.")
    [] result = 2 -> Text("Error: Received NACK on transmit of address.")
    [] result = 3 -> Text("Error: Received NACK on transmit of data.")
    [] result = 4 -> Text("Error: Other error occurred.")
    [] result = 5 -> Text("Error: Timeout occurred.")
    [] OTHER -> Text("Error: Unknown error code.")

\* "Starting command " and the line printMBACommandInfo prints.
printMBACommandInfo(ci) ==
  LET c == MBACommandsInfo[ci] IN
  Line("Starting command", c.cmd,
       c.name \o [i \in 1..c.dataLength |-> c.data[i]], "")

\* uint8_t buffer[SOFTWAREWIRE_BUFSIZE] and the stack behind it, as the runner
\* finds them: nothing has been stored yet (bqcmd.cpp:236).
FreshMemory == [i \in 1..MemSize |-> UNINIT]

\* Memory from &buffer[0] on is a sequence: buffer[i] is its element i + 1.
Cell(buffer, i) == buffer[i + 1]

\* buffer[i] = value
Store(buffer, i, value) == [buffer EXCEPT ![i + 1] = value]

\* One round of the loop: temp = buffer[i]; buffer[i] = buffer[size - 1 - i];
\* buffer[size - 1 - i] = temp.  b is the value of buffer, computed once.
SwapRound(buffer, size, i) ==
  CHOOSE r \in {Store(Store(b, i, Cell(b, size - 1 - i)),
                      size - 1 - i, Cell(b, i)) : b \in {buffer}} : TRUE

RECURSIVE ReverseLoop_OneShort(_, _, _)
\* The loop with the bound one too small: the innermost pair is not swapped.
ReverseLoop_OneShort(buffer, size, i) ==
  IF i + 1 < size \div 2
  THEN ReverseLoop_OneShort(SwapRound(buffer, size, i), size, i + 1)
  ELSE buffer

RECURSIVE ReverseLoop(_, _, _)
ReverseLoop(buffer, size, i) ==
  IF i < size \div 2
  THEN ReverseLoop(SwapRound(buffer, size, i), size, i + 1)
  ELSE buffer

\* A round that reads buffer[i] back after overwriting it, without temp.
SwapRound_LostTemp(buffer, size, i) ==
  CHOOSE r \in {Store(Store(b, i, Cell(b, size - 1 - i)),
                      size - 1 - i, Cell(b, size - 1 - i)) : b \in {buffer}} : TRUE

RECURSIVE ReverseLoop_LostTemp(_, _, _)
ReverseLoop_LostTemp(buffer, size, i) ==
  IF i < size \div 2
  THEN ReverseLoop_LostTemp(SwapRound_LostTemp(buffer, size, i), size, i + 1)
  ELSE buffer

\* reverseBufferEndian whose swap has lost temp.
reverseBufferEndian_LostTemp(buffer, size) ==
  ReverseLoop_LostTemp(buffer, size, 0)

reverseBufferEndian(buffer, size) == ReverseLoop(buffer, size, 0)

\* The indices reverseBufferEndian(buffer, size) writes.
ReverseWrites(size) ==
  UNION {{i, size - 1 - i} : i \in 0..(size \div 2 - 1)}

\* The first n cells of memory as a sequence.
Prefix(m, n) == [i \in 1..n |-> Cell(m, i - 1)]

\* The lines of printBuffer(buffer, size, displayFormat).
printBuffer(buffer, size, displayFormat) ==
  <<Line("Data (hex): ", 0, Prefix(buffer, size), "")>>
    \o CASE displayFormat = "FORMAT_DECIMAL" ->
              <<Line("Data (dec): ", 0, Prefix(buffer, size), "")>>
         [] displayFormat = "FORMAT_BINARY" ->
              <<Line("Data (bin): ", 0, Prefix(buffer, size), "")>>
         [] displayFormat = "FORMAT_TEXT" ->
              <<Line("Data (txt): ", 0, Prefix(buffer, size), "")>>
         [] OTHER -> << >>

\* The characters of a printed line are kept as their ASCII codes.  The digit
\* Print::printNumber writes for d: '0'..'9', then 'A'..'F'.
DigitChar(d) == IF d < 10 THEN 48 + d ELSE 55 + d

RECURSIVE printNumber(_, _)
\* Serial.print(n, base): the digits of n in the base, without a leading
\* zero, "0" for 0.
printNumber(n, base) ==
  IF n < base THEN <<DigitChar(n)>>
  ELSE Append(printNumber(n \div base, base), DigitChar(n % base))

\* bitRead(value, bit)
bitRead(value, bit) == (value \div (2 ^ bit)) % 2

\* The hex token without the padding zero.
HexToken_NoPad(byte) == <<48, 120>> \o printNumber(byte, 16) \o <<32>>

\* "0x", "0" if the byte is below 0x10, the byte in HEX, " "
\* (utility.cpp:47-50).
HexToken(byte) ==
  <<48, 120>> \o (IF byte < 16 THEN <<48>> ELSE << >>)
    \o printNumber(byte, 16) \o <<32>>

\* The byte in decimal, " " (utility.cpp:57-58).
DecToken(byte) == printNumber(byte, 10) \o <<32>>

\* for (b = 7; b >= 0; b--) print(bitRead(buffer[i], b)); then " "
\* (utility.cpp:65-68).
BinToken(byte) == [k \in 1..8 |-> 48 + bitRead(byte, 8 - k)] \o <<32>>

\* The byte as a character if it is in 32..126, "." otherwise
\* (utility.cpp:75-79).
TxtToken(byte) == IF byte >= 32 /\ byte <= 126 THEN <<byte>> ELSE <<46>>

\* The characters of the four texts that open a line of printBuffer.
LabelChars(k) ==
  CASE k = "Data (hex): " ->
         <<68, 97, 116, 97, 32, 40, 104, 101, 120, 41, 58, 32>>
    [] k = "Data (dec): " ->
         <<68, 97, 116, 97, 32, 40, 100, 101, 99, 41, 58, 32>>
    [] k = "Data (bin): " ->
         <<68, 97, 116, 97, 32, 40, 98, 105, 110, 41, 58, 32>>
    [] k = "Data (txt): " ->
         <<68, 97, 116, 97, 32, 40, 116, 120, 116, 41, 58, 32>>

\* What printBuffer writes for one byte on the line opened by k.
Token(k, byte) ==
  CASE k = "Data (hex): " -> HexToken(byte)
    [] k = "Data (dec): " -> DecToken(byte)
    [] k = "Data (bin): " -> BinToken(byte)
    [] k = "Data (txt): " -> TxtToken(byte)

RECURSIVE TokensFrom(_, _, _)
\* The tokens of bytes[i..], one after the other, in buffer order.
TokensFrom(k, bytes, i) ==
  IF i > Len(bytes) THEN << >>
  ELSE Token(k, bytes[i]) \o TokensFrom(k, bytes, i + 1)

\* The characters of one line of printBuffer, up to its line end.
PrintedChars(line) == LabelChars(line.k) \o TokensFrom(line.k, line.bytes, 1)

\* The value read from a cell: an uninitialised cell yields g.
Observe(cell, g) == IF cell = UNINIT THEN g ELSE cell

\* The byte index taken in buffer order, without the inversion.
ByteIndex_LsbFirst(bitfieldsCount, bitIndex) == (bitIndex \div 8) % BYTE_MOD

\* uint8_t byteIndex = (bitfieldsCount/8) - (b->bitIndex / 8) - 1
ByteIndex(bitfieldsCount, bitIndex) ==
  ((bitfieldsCount \div 8) - (bitIndex \div 8) - 1) % BYTE_MOD

\* The position counted from the most significant bit of the byte.
BitInByte_MsbFirst(bitIndex) == 7 - (bitIndex % 8)

BitInByte(bitIndex) == bitIndex % 8

\* The bounds test written with <=.
InBuffer_Inclusive(byteIndex, size) == byteIndex <= size

\* if (byteIndex < bufferSize)
InBuffer(byteIndex, size) == byteIndex < size

\* (buffer[byteIndex] >> bitInByte) & 0x01, FALSE outside the buffer.
BitSet(buffer, size, bitfieldsCount, bitIndex, g) ==
  LET byteIndex == ByteIndex(bitfieldsCount, bitIndex) IN
  IF InBuffer(byteIndex, size)
  THEN (Observe(Cell(buffer, byteIndex), g) \div (2 ^ BitInByte(bitIndex))) % 2 = 1
  ELSE FALSE

\* The lines of printBitFields: n the bit index, bytes <<1>> or <<0>>, t the
\* label and the value text.
printBitFields(buffer, size, bitfields, bitfieldsCount, g) ==
  [i \in 1..bitfieldsCount |->
     LET b == bitfields[i]
         set == BitSet(buffer, size, bitfieldsCount, b.bitIndex, g)
     IN Line("Bit ", b.bitIndex,
             IF set THEN <<1>> ELSE <<0>>,
             IF set THEN b.activeValue ELSE b.inactiveValue)]

\* The indices at which printBitFields reads buffer.
BitFieldReads(size, bitfields, bitfieldsCount) ==
  {ByteIndex(bitfieldsCount, bitfields[i].bitIndex) : i \in 1..bitfieldsCount}
    \cap {x \in 0..(BYTE_MOD - 1) : InBuffer(x, size)}

Available == Len(wireRx) - rxPos

\* ------------------------------------------------------------ actions

Init ==
  /\ literalsMerged \in BOOLEAN
  /\ pc = "idle"
  /\ trail = << >>
  /\ address = 0
  /\ cmdName = NULL
  /\ cmdInfo = 0
  /\ ret = "none"
  /\ sendRet = "none"
  /\ readRet = "none"
  /\ wire = << >>
  /\ serial = << >>
  /\ now = [hi |-> 0, lo |-> 0]
  /\ bufferSize = 0
  /\ wireRx = << >>
  /\ wireLate = << >>
  /\ rxPos = 0
  /\ len = -1
  /\ start = [hi |-> 0, lo |-> 0]
  /\ waited = 0
  /\ mem = << >>
  /\ copied = 0
  /\ touched = {}
  /\ direct = NoCall

\* runMBACommand up to the call of sendMBACommand (bqcmd.cpp:213-224), its
\* arguments and the clock taken from the given sets.
RunMBACommandFrom(addrs, names, clocks) ==
  /\ pc = "idle"
  /\ \E a \in addrs, nm \in names, t \in clocks :
       LET ci == getMBACommandInfoByName(nm) IN
       /\ address' = a
       /\ cmdName' = nm
       /\ cmdInfo' = ci
       /\ now' = t
       /\ IF ci = 0
          THEN /\ serial' = <<Line("Command not found: ", 0, nm, ""), Blank>>
               /\ ret' = "false"
               /\ pc' = "done"
          ELSE /\ serial' = <<printMBACommandInfo(ci)>>
               /\ ret' = "none"
               /\ pc' = "send"
  /\ trail' = <<"run">>
  /\ UNCHANGED <<direct, literalsMerged, sendRet, readRet, wire, readVars, bufVars>>

RunMBACommand == RunMBACommandFrom(Addresses, CmdNames, ClockStarts)

RunMBACommandFair ==
  RunMBACommandFrom(FairAddresses, FairCmdNames, ClockStarts)

\* sendMBACommand, whole (bqcmd.cpp:57-87).
SendMBACommand ==
  /\ pc = "send"
  /\ \E result \in ResultCodes :
       /\ wire' = wire \o SendWire(address, cmdInfo, result)
       /\ now' = ClockAfter(now, DelayTotal(SendWire(address, cmdInfo, result)))
       /\ IF result = 0
          THEN /\ sendRet' = "true"
               /\ serial' = serial
          ELSE /\ sendRet' = "false"
               /\ serial' = Append(serial, printMBACommandError(result))
  /\ pc' = "sent"
  /\ trail' = Append(trail, "send")
  /\ UNCHANGED <<direct, literalsMerged, callVars, ret, readRet, readVars, bufVars>>

\* RunAfterSend that sends the command a second time when the first send
\* failed.
RunAfterSend_Retries ==
  /\ pc = "sent"
  /\ trail' = Append(trail, "afterSend")
  /\ IF sendRet = "false"
     THEN IF Len(trail) < 4
          THEN /\ pc' = "send"
               /\ UNCHANGED <<serial, ret, wire, now, bufferSize, mem>>
          ELSE /\ serial' = serial \o <<Text("Failed to send command."), Blank>>
               /\ ret' = "false"
               /\ pc' = "done"
               /\ UNCHANGED <<wire, now, bufferSize, mem>>
     ELSE IF AccessIsNotW(cmdInfo)
     THEN /\ bufferSize' = SOFTWAREWIRE_BUFSIZE
          /\ mem' = FreshMemory
          /\ pc' = "read"
          /\ UNCHANGED <<serial, ret, wire, now>>
     ELSE /\ serial' = Append(serial, Blank)
          /\ wire' = wire \o SettleWire
          /\ now' = ClockAfter(now, DelayTotal(SettleWire))
          /\ ret' = "true"
          /\ pc' = "done"
          /\ UNCHANGED <<bufferSize, mem>>
  /\ UNCHANGED <<direct, literalsMerged, callVars, sendRet, readRet, wireRx,
                 wireLate, rxPos, len, start, waited, copied, touched>>

\* RunAfterSend with the result of sendMBACommand ignored: the runner goes on
\* as if the send had succeeded.
RunAfterSend_IgnoresFailure ==
  /\ pc = "sent"
  /\ trail' = Append(trail, "afterSend")
  /\ IF AccessIsNotW(cmdInfo)
     THEN /\ bufferSize' = SOFTWAREWIRE_BUFSIZE
          /\ mem' = FreshMemory
          /\ pc' = "read"
          /\ UNCHANGED <<serial, ret, wire, now>>
     ELSE /\ serial' = Append(serial, Blank)
          /\ wire' = wire \o SettleWire
          /\ now' = ClockAfter(now, DelayTotal(SettleWire))
          /\ ret' = "true"
          /\ pc' = "done"
          /\ UNCHANGED <<bufferSize, mem>>
  /\ UNCHANGED <<direct, literalsMerged, callVars, sendRet, readRet, wireRx,
                 wireLate, rxPos, len, start, waited, copied, touched>>

\* runMBACommand from the result of sendMBACommand to the call of
\* readMBACommand or to its return (bqcmd.cpp:227-236 and 251-253).
RunAfterSend ==
  /\ pc = "sent"
  /\ trail' = Append(trail, "afterSend")
  /\ IF sendRet = "false"
     THEN /\ serial' = serial \o <<Text("Failed to send command."), Blank>>
          /\ ret' = "false"
          /\ pc' = "done"
          /\ UNCHANGED <<wire, now, bufferSize, mem>>
     ELSE IF AccessIsNotW(cmdInfo)
     THEN /\ bufferSize' = SOFTWAREWIRE_BUFSIZE
          /\ mem' = FreshMemory
          /\ pc' = "read"
          /\ UNCHANGED <<serial, ret, wire, now>>
     ELSE /\ serial' = Append(serial, Blank)
          /\ wire' = wire \o SettleWire
          /\ now' = ClockAfter(now, DelayTotal(SettleWire))
          /\ ret' = "true"
          /\ pc' = "done"
          /\ UNCHANGED <<bufferSize, mem>>
  /\ UNCHANGED <<direct, literalsMerged, callVars, sendRet, readRet, wireRx,
                 wireLate, rxPos, len, start, waited, copied, touched>>

\* The command write of the read phase closed with a stop.
ReadFrame_WithStop(addr, result) ==
  <<Begin(addr), Write(MANUFACTURER_BLOCK_ACCESS_COMMAND), End(1, result)>>

\* The command write of readMBACommand: beginTransmission(address),
\* write(0x44), endTransmission(false) (bqcmd.cpp:129-133).
ReadFrame(addr, result) ==
  <<Begin(addr), Write(MANUFACTURER_BLOCK_ACCESS_COMMAND), End(0, result)>>

\* readMBACommand up to the polling loop (bqcmd.cpp:120-156).
ReadBegin ==
  /\ pc = "read"
  /\ trail' = Append(trail, "readBegin")
  /\ \E result \in ResultCodes, resp \in Responses :
       LET warn == IF bufferSize > SOFTWAREWIRE_BUFSIZE
                   THEN <<Line("Warning: bufferSize exceeds Wire buffer max",
                               SOFTWAREWIRE_BUFSIZE, << >>, "")>>
                   ELSE << >>
           cmdWrite == ReadFrame(address, result)
           quantity == bufferSize % BYTE_MOD
       IN
       IF result # 0
       THEN /\ resp.rx = << >> /\ resp.late = << >>
            /\ wire' = wire \o cmdWrite
            /\ serial' = serial \o warn \o <<printMBACommandError(result)>>
            /\ readRet' = "false"
            /\ pc' = "readDone"
            /\ UNCHANGED <<wireRx, wireLate, rxPos, len, start>>
       ELSE /\ Len(resp.rx) + Len(resp.late)
                 <= Min(quantity, SOFTWAREWIRE_BUFSIZE)
            /\ wire' = wire \o cmdWrite \o <<Request(address, quantity)>>
            /\ wireRx' = resp.rx
            /\ wireLate' = resp.late
            /\ IF NoData(Len(resp.rx))
               THEN /\ serial' = serial \o warn
                                   \o <<Text("No data available to read")>>
                    /\ readRet' = "false"
                    /\ pc' = "readDone"
                    /\ UNCHANGED <<rxPos, len, start>>
               ELSE /\ serial' = serial \o warn
                    /\ rxPos' = 1
                    /\ len' = resp.rx[1]
                    /\ start' = now
                    /\ readRet' = "none"
                    /\ pc' = "poll"
  /\ UNCHANGED <<direct, literalsMerged, callVars, ret, sendRet, now, bufferSize,
                 waited, bufVars>>

\* ReadPoll that, on the time-out, copies the bytes that did arrive into the
\* caller's buffer before it gives up.
ReadPoll_CopiesOnTimeout ==
  /\ pc = "poll"
  /\ trail' = IF trail[Len(trail)] = "poll" THEN trail
              ELSE Append(trail, "poll")
  /\ IF Available < len /\ Available < SOFTWAREWIRE_BUFSIZE - 1
     THEN IF TimedOut(now, start)
          THEN /\ serial' = Append(serial,
                   Line("Timeout waiting for full data block, only ",
                        Available, << >>, " bytes readable."))
               /\ mem' = [j \in 1..MemSize |->
                            IF j - 1 < Available THEN wireRx[rxPos + j]
                            ELSE mem[j]]
               /\ copied' = Available
               /\ readRet' = "false"
               /\ pc' = "readDone"
               /\ UNCHANGED <<now, waited, touched>>
          ELSE /\ now' = ClockAfter(now, POLL_DELAY_MS)
               /\ waited' = waited + POLL_DELAY_MS
               /\ UNCHANGED <<serial, readRet, pc, bufVars>>
     ELSE /\ pc' = "copy"
          /\ UNCHANGED <<serial, readRet, now, waited, bufVars>>
  /\ UNCHANGED <<direct, literalsMerged, callVars, ret, sendRet, wire, bufferSize,
                 wireRx, wireLate, rxPos, len, start>>

\* One round of the polling loop: its condition, the time-out test and the
\* delay (bqcmd.cpp:159-167).
ReadPoll ==
  /\ pc = "poll"
  /\ trail' = IF trail[Len(trail)] = "poll" THEN trail
              ELSE Append(trail, "poll")
  /\ IF Available < len /\ Available < SOFTWAREWIRE_BUFSIZE - 1
     THEN IF TimedOut(now, start)
          THEN /\ serial' = Append(serial,
                   Line("Timeout waiting for full data block, only ",
                        Available, << >>, " bytes readable."))
               /\ readRet' = "false"
               /\ pc' = "readDone"
               /\ UNCHANGED <<now, waited>>
          ELSE /\ now' = ClockAfter(now, POLL_DELAY_MS)
               /\ waited' = waited + POLL_DELAY_MS
               /\ UNCHANGED <<serial, readRet, pc>>
     ELSE /\ pc' = "copy"
          /\ UNCHANGED <<serial, readRet, now, waited>>
  /\ UNCHANGED <<direct, literalsMerged, callVars, ret, sendRet, wire, bufferSize,
                 wireRx, wireLate, rxPos, len, start, bufVars>>

\* The rest of the answer reaches the bus layer's buffer while the engine
\* polls Wire.available() (bqcmd.cpp:159).
BusArrive ==
  /\ pc = "poll"
  /\ wireLate # << >>
  /\ wireRx' = wireRx \o wireLate
  /\ wireLate' = << >>
  /\ UNCHANGED <<direct, literalsMerged, pc, trail, callVars, ret, sendRet, readRet,
                 wire, serial, now, bufferSize, rxPos, len, start, waited,
                 bufVars>>

\* ReadCopy that gives up when the declared length exceeds the capacity: the
\* advisory is printed and readMBACommand returns false.
ReadCopy_AbortsOnTruncation ==
  /\ pc = "copy"
  /\ trail' = Append(trail, "copy")
  /\ LET available_bytes == Available
         filled == [j \in 1..MemSize |->
                      IF j - 1 < available_bytes THEN wireRx[rxPos + j]
                      ELSE mem[j]]
     IN
     IF len > bufferSize
     THEN /\ serial' = Append(serial,
                 Line("Warning: Block length exceeds buffer limit. Truncation may occur.",
                      len, << >>, ""))
          /\ readRet' = "false"
          /\ UNCHANGED <<copied, rxPos, mem, touched>>
     ELSE /\ serial' = serial \o <<Line("Response length: ", len, << >>, " bytes")>>
               \o printBuffer(filled, Min(available_bytes, len),
                              MBACommandsInfo[cmdInfo].displayFormat)
          /\ copied' = available_bytes
          /\ rxPos' = rxPos + available_bytes
          /\ mem' = reverseBufferEndian(filled, len)
          /\ touched' = ReverseWrites(len)
          /\ readRet' = "true"
  /\ pc' = "readDone"
  /\ UNCHANGED <<direct, literalsMerged, callVars, ret, sendRet, wire, now,
                 bufferSize, wireRx, wireLate, len, start, waited>>

\* ReadCopy that prints the dump after the reversal, from the reversed
\* buffer.
ReadCopy_DumpsAfterReversal ==
  /\ pc = "copy"
  /\ trail' = Append(trail, "copy")
  /\ LET available_bytes == Available
         filled == [j \in 1..MemSize |->
                      IF j - 1 < available_bytes THEN wireRx[rxPos + j]
                      ELSE mem[j]]
         advisory ==
           IF len > bufferSize
           THEN Line("Warning: Block length exceeds buffer limit. Truncation may occur.",
                     len, << >>, "")
           ELSE Line("Response length: ", len, << >>, " bytes")
     IN
     /\ serial' = serial \o <<advisory>>
          \o printBuffer(reverseBufferEndian(filled, len),
                         Min(available_bytes, len),
                         MBACommandsInfo[cmdInfo].displayFormat)
     /\ copied' = available_bytes
     /\ rxPos' = rxPos + available_bytes
     /\ mem' = reverseBufferEndian(filled, len)
     /\ touched' = ReverseWrites(len)
  /\ readRet' = "true"
  /\ pc' = "readDone"
  /\ UNCHANGED <<direct, literalsMerged, callVars, ret, sendRet, wire, now,
                 bufferSize, wireRx, wireLate, len, start, waited>>

\* readMBACommand after the polling loop: the advisory, the copy, the dump
\* and the reversal (bqcmd.cpp:169-196).
ReadCopy ==
  /\ pc = "copy"
  /\ trail' = Append(trail, "copy")
  /\ LET available_bytes == Available
         filled == [j \in 1..MemSize |->
                      IF j - 1 < available_bytes THEN wireRx[rxPos + j]
                      ELSE mem[j]]
         advisory ==
           IF len > bufferSize
           THEN Line("Warning: Block length exceeds buffer limit. Truncation may occur.",
                     len, << >>, "")
           ELSE Line("Response length: ", len, << >>, " bytes")
     IN
     /\ serial' = serial \o <<advisory>>
          \o printBuffer(filled, Min(available_bytes, len),
                         MBACommandsInfo[cmdInfo].displayFormat)
     /\ copied' = available_bytes
     /\ rxPos' = rxPos + available_bytes
     /\ mem' = reverseBufferEndian(filled, len)
     /\ touched' = ReverseWrites(len)
  /\ readRet' = "true"
  /\ pc' = "readDone"
  /\ UNCHANGED <<direct, literalsMerged, callVars, ret, sendRet, wire, now,
                 bufferSize, wireRx, wireLate, len, start, waited>>

\* RunAfterRead whose failure path returns right after its message, without
\* the blank line.
RunAfterRead_NoBlankOnFailure ==
  /\ pc = "readDone"
  /\ trail' = Append(trail, "afterRead")
  /\ IF readRet = "false"
     THEN /\ serial' = serial
               \o <<Text("Failed to read command response")>>
          /\ ret' = "false"
          /\ UNCHANGED <<wire, now>>
     ELSE /\ \E g \in GarbageBytes :
               LET c == MBACommandsInfo[cmdInfo]
                   bits == IF c.bitfields # NoBitFields /\ c.bitfieldCount > 0
                           THEN printBitFields(mem, SOFTWAREWIRE_BUFSIZE - 2,
                                               c.bitfields, c.bitfieldCount, g)
                           ELSE << >>
               IN serial' = serial \o bits \o <<Blank>>
          /\ wire' = wire \o SettleWire
          /\ now' = ClockAfter(now, DelayTotal(SettleWire))
          /\ ret' = "true"
  /\ pc' = "done"
  /\ UNCHANGED <<direct, literalsMerged, callVars, sendRet, readRet, readVars,
                 bufVars>>

\* runMBACommand from the result of readMBACommand to its return
\* (bqcmd.cpp:239-253).
RunAfterRead ==
  /\ pc = "readDone"
  /\ trail' = Append(trail, "afterRead")
  /\ IF readRet = "false"
     THEN /\ serial' = serial
               \o <<Text("Failed to read command response"), Blank>>
          /\ ret' = "false"
          /\ UNCHANGED <<wire, now>>
     ELSE /\ \E g \in GarbageBytes :
               LET c == MBACommandsInfo[cmdInfo]
                   bits == IF c.bitfields # NoBitFields /\ c.bitfieldCount > 0
                           THEN printBitFields(mem, SOFTWAREWIRE_BUFSIZE - 2,
                                               c.bitfields, c.bitfieldCount, g)
                           ELSE << >>
               IN serial' = serial \o bits \o <<Blank>>
          /\ wire' = wire \o SettleWire
          /\ now' = ClockAfter(now, DelayTotal(SettleWire))
          /\ ret' = "true"
  /\ pc' = "done"
  /\ UNCHANGED <<direct, literalsMerged, callVars, sendRet, readRet, readVars,
                 bufVars>>

\* runMBACommand has returned and its caller goes on: the locals of the call
\* are gone, nothing of it is kept (bqcmd.cpp:213-254 hold no static state).
ReturnToCaller ==
  /\ pc = "done"
  /\ pc' = "idle"
  /\ trail' = << >>
  /\ address' = 0
  /\ cmdName' = NULL
  /\ cmdInfo' = 0
  /\ ret' = "none"
  /\ sendRet' = "none"
  /\ readRet' = "none"
  /\ wire' = << >>
  /\ serial' = << >>
  /\ now' = [hi |-> 0, lo |-> 0]
  /\ bufferSize' = 0
  /\ wireRx' = << >>
  /\ wireLate' = << >>
  /\ rxPos' = 0
  /\ len' = -1
  /\ start' = [hi |-> 0, lo |-> 0]
  /\ waited' = 0
  /\ mem' = << >>
  /\ copied' = 0
  /\ touched' = {}
  /\ UNCHANGED <<direct, literalsMerged>>

Next ==
  \/ RunMBACommand
  \/ SendMBACommand
  \/ RunAfterSend
  \/ ReadBegin
  \/ ReadPoll
  \/ BusArrive
  \/ ReadCopy
  \/ RunAfterRead
  \/ ReturnToCaller

Spec == Init /\ [][Next]_vars

\* The steps of the program itself.  The one thread runs on until the call
\* returns: nothing else is scheduled, and delay() returns.
Program ==
  \/ SendMBACommand
  \/ RunAfterSend
  \/ ReadBegin
  \/ ReadPoll
  \/ ReadCopy
  \/ RunAfterRead

FairNext ==
  \/ RunMBACommandFair
  \/ Program
  \/ BusArrive
  \/ ReturnToCaller

FairSpec ==
  /\ Init
  /\ [][FairNext]_vars
  /\ WF_vars(SendMBACommand)
  /\ WF_vars(RunAfterSend)
  /\ WF_vars(ReadBegin)
  /\ WF_vars(ReadPoll)
  /\ WF_vars(ReadCopy)
  /\ WF_vars(RunAfterRead)

\* ------------------------------------------------------------ direct calls

\* The names of the catalog.
CatalogNames == {MBACommandsInfo[i].name : i \in 1..Len(MBACommandsInfo)}

\* A letter in the other case, any other character as it is.
SwapCase(c) ==
  IF c \in 65..90 THEN c + 32 ELSE IF c \in 97..122 THEN c - 32 ELSE c

\* The names given to a lookup on its own: every catalog name; each with its
\* first or its second letter in the other case; every strict prefix of each,
\* the empty string among them; each with a character appended; and the null
\* pointer.
LookupNames ==
  CatalogNames
    \cup {[n EXCEPT ![k] = SwapCase(n[k])] : n \in CatalogNames, k \in {1, 2}}
    \cup UNION {{SubSeq(n, 1, k) : k \in 0..(Len(n) - 1)} : n \in CatalogNames}
    \cup {Append(n, c) : n \in CatalogNames, c \in {49, 115}}
    \cup {NULL}

\* getMBACommandInfoByName that keeps the entry it found in program state.
CallLookup_KeepsLastFound ==
  /\ pc = "idle"
  /\ direct = NoCall
  /\ \E nm \in LookupNames :
       /\ direct' = [fn |-> "getMBACommandInfoByName",
                     name |-> nm,
                     found |-> getMBACommandInfoByName(nm)]
       /\ cmdInfo' = getMBACommandInfoByName(nm)
  /\ UNCHANGED <<literalsMerged, pc, trail, address, cmdName, ret, sendRet,
                 readRet, wire, serial, now, readVars, bufVars>>

\* getMBACommandInfoByName(name) called by itself (bqcmd.cpp:21-37).
CallLookup ==
  /\ pc = "idle"
  /\ direct = NoCall
  /\ \E nm \in LookupNames :
       direct' = [fn |-> "getMBACommandInfoByName",
                  name |-> nm,
                  found |-> getMBACommandInfoByName(nm)]
  /\ UNCHANGED engineVars

\* A table of 8 entries whose bit indices go beyond the 8 bits its count
\* stands for: the byte index of the last four is below zero.
WideIndexBits ==
  [i \in 1..8 |->
     [bitIndex |-> <<0, 1, 6, 7, 8, 9, 200, 255>>[i], label |-> "X",
      activeValue |-> "On", inactiveValue |-> "Off"]]

\* The tables given to printBitFields with their counts: those of the
\* catalog, and the table above.
Schemas ==
  {[bitfields |-> MBACommandsInfo[i].bitfields,
    count |-> MBACommandsInfo[i].bitfieldCount] :
      i \in {j \in 1..Len(MBACommandsInfo) :
               MBACommandsInfo[j].bitfields # NoBitFields}}
    \cup {[bitfields |-> WideIndexBits, count |-> 8]}

\* Byte values a decoded buffer holds.
SampleBytes == {0, 1, 128, 255}

\* The largest buffer whose every content is tried.
MaxDecoded == 4

\* The buffers given to printBitFields: every content of 0, 1, 2 and 4 bytes
\* over the sample values, and two buffers of 256 bytes.
DecodedBuffers ==
  UNION {[1..n -> SampleBytes] : n \in {0, 1, 2, MaxDecoded}}
    \cup {[i \in 1..BYTE_MOD |-> i % BYTE_MOD],
          [i \in 1..BYTE_MOD |-> (BYTE_MOD - 1) - (i % 2)]}

\* printBitFields(buffer, bufferSize, bitfields, bitfieldsCount) called by
\* itself (utility.cpp:109-152).  One more byte of memory follows the buffer.
CallPrintBitFields ==
  /\ pc = "idle"
  /\ direct = NoCall
  /\ \E contents \in DecodedBuffers, schema \in Schemas, g \in GarbageBytes :
       LET memory == contents \o <<UNINIT>> IN
       direct' = [fn |-> "printBitFields",
                  buffer |-> contents,
                  size |-> Len(contents),
                  bitfields |-> schema.bitfields,
                  count |-> schema.count,
                  reads |-> BitFieldReads(Len(contents), schema.bitfields,
                                          schema.count),
                  lines |-> printBitFields(memory, Len(contents),
                                           schema.bitfields, schema.count, g)]
  /\ UNCHANGED engineVars

\* The longest buffer given to reverseBufferEndian on its own.
MaxReversed == 5

\* The buffers given to reverseBufferEndian: every content of up to
\* MaxReversed bytes over three values.
ReversedBuffers == UNION {[1..n -> {1, 2, 3}] : n \in 0..MaxReversed}

\* reverseBufferEndian(buffer, bufferSize) called by itself on the first
\* bufferSize bytes of a buffer (utility.cpp:16-22).
CallReverse ==
  /\ pc = "idle"
  /\ direct = NoCall
  /\ \E contents \in ReversedBuffers :
       \E n \in 0..Len(contents) :
         direct' = [fn |-> "reverseBufferEndian",
                    original |-> contents,
                    size |-> n,
                    buffer |-> reverseBufferEndian(contents, n),
                    writes |-> ReverseWrites(n),
                    times |-> 1]
  /\ UNCHANGED engineVars

\* The caller reverses the same bytes a second time.
CallReverseAgain ==
  /\ direct.fn = "reverseBufferEndian"
  /\ direct.times = 1
  /\ direct' = [direct EXCEPT
                  !.buffer = reverseBufferEndian(direct.buffer, direct.size),
                  !.times = 2]
  /\ UNCHANGED engineVars

\* The five values of enum DisplayFormat (bqcmd.h:10-16).
DisplayFormats ==
  {"FORMAT_DECIMAL", "FORMAT_HEX", "FORMAT_BINARY", "FORMAT_TEXT",
   "FORMAT_MIXED"}

\* Byte values a printed buffer holds: both sides of 0x10, of the printable
\* range 32..126, and of the decimal lengths.
PrintedBytes == {0, 9, 10, 15, 16, 31, 32, 65, 99, 100, 126, 127, 255}

\* The longest buffer given to printBuffer on its own.
MaxPrinted == 2

\* printBuffer(buffer, size, displayFormat) called by itself
\* (utility.cpp:44-84): the lines it prints and the characters of each.
CallPrintBuffer ==
  /\ pc = "idle"
  /\ direct = NoCall
  /\ \E n \in 0..MaxPrinted :
       \E contents \in [1..n -> PrintedBytes], fmt \in DisplayFormats :
         LET lines == printBuffer(contents, n, fmt) IN
         direct' = [fn |-> "printBuffer",
                    buffer |-> contents,
                    size |-> n,
                    displayFormat |-> fmt,
                    lines |-> lines,
                    chars |-> [i \in 1..Len(lines) |-> PrintedChars(lines[i])]]
  /\ UNCHANGED engineVars

\* The helper function returns to its caller.
DirectReturn ==
  /\ direct # NoCall
  /\ direct' = NoCall
  /\ UNCHANGED engineVars

UnitNext ==
  \/ CallLookup
  \/ CallPrintBitFields
  \/ CallReverse
  \/ CallReverseAgain
  \/ CallPrintBuffer
  \/ DirectReturn

UnitSpec == Init /\ [][UnitNext]_vars

\* ------------------------------------------------------------ engine calls

\* A caller that, between two commands, calls the helper functions on their
\* own any number of times and in any order; it is single-threaded, so a
\* command starts and proceeds only while no helper call is under way.
CallerNext ==
  \/ direct = NoCall /\ Next
  \/ UnitNext

CallerSpec == Init /\ [][CallerNext]_vars

\* Capacities a caller of readMBACommand passes: below the smallest answer
\* that is read, the runner's, above the bus layer's limit, and beyond 8 bits
\* (260 is 4 and 300 is 44 in 8 bits).
Capacities == {3, SOFTWAREWIRE_BUFSIZE, 36, 260, 300}

\* readMBACommand(address, cmdInfo, buffer, bufferSize) called by a caller of
\* its own, up to its first statement (bqcmd.cpp:120).  The caller's buffer
\* has not been written.
DirectRead ==
  /\ pc = "idle"
  /\ direct = NoCall
  /\ \E cap \in Capacities, t \in ClockStarts :
       /\ address' = 11
       /\ cmdInfo' = 1
       /\ bufferSize' = cap
       /\ now' = t
  /\ mem' = FreshMemory
  /\ pc' = "read"
  /\ trail' = <<"directRead">>
  /\ UNCHANGED <<direct, literalsMerged, cmdName, ret, sendRet, readRet,
                 wire, serial, wireRx, wireLate, rxPos, len, start, waited,
                 copied, touched>>

\* readMBACommand returns to that caller.
DirectReadReturn ==
  /\ pc = "readDone"
  /\ pc' = "done"
  /\ trail' = Append(trail, "return")
  /\ UNCHANGED <<direct, literalsMerged, callVars, ret, sendRet, readRet,
                 wire, serial, now, readVars, bufVars>>

ReadNext ==
  \/ DirectRead
  \/ ReadBegin
  \/ ReadPoll
  \/ BusArrive
  \/ ReadCopy
  \/ DirectReadReturn
  \/ ReturnToCaller

ReadSpec == Init /\ [][ReadNext]_vars

\* ------------------------------------------------------------ claims

Last(s) == s[Len(s)]

\* The positions of the wire log that hold operation op.
WireOps(op) == {i \in 1..Len(wire) : wire[i].op = op}

\* The positions of the wire log that belong to a read sequence: a command
\* write closed without stop, or a read request.
ReadOps ==
  {i \in 1..Len(wire) :
     \/ wire[i].op = "requestFrom"
     \/ wire[i].op = "endTransmission" /\ wire[i].a = 0}

\* The lines printed so far whose fixed text is k.
Lines(k) == {i \in 1..Len(serial) : serial[i].k = k}

InReadPhase == pc \in {"read", "poll", "copy", "readDone"}

ReadPhaseStarted == InReadPhase \/ readRet # "none" \/ ReadOps # {}
\* C1: the steps of runMBACommand are gated.  Nothing happens on the bus
\* unless the lookup found the name; the read phase starts only after
\* sendMBACommand returned true; bit-field lines are printed only after
\* readMBACommand returned true; and a call in which a step failed has
\* returned false without any later step.
C1_StepsAreGated ==
  /\ cmdInfo = 0 =>
       wire = << >> /\ sendRet = "none" /\ readRet = "none"
  /\ ReadPhaseStarted => sendRet = "true"
  /\ Lines("Bit ") # {} => readRet = "true"
  /\ pc = "done" /\ cmdInfo = 0 =>
       ret = "false" /\ trail = <<"run">>
  /\ pc = "done" /\ sendRet = "false" =>
       /\ ret = "false"
       /\ trail = <<"run", "send", "afterSend">>
       /\ ~ReadPhaseStarted
       /\ WireOps("beginTransmission") = {1}
  /\ pc = "done" /\ readRet = "false" =>
       ret = "false" /\ Lines("Bit ") = {} /\ Last(trail) = "afterRead"
  /\ pc = "done" /\ ret = "true" =>
       cmdInfo # 0 /\ sendRet = "true" /\ readRet # "false"

\* A call whose send failed has returned.
C1_Witness ==
  /\ pc = "done"
  /\ sendRet = "false"
  /\ ret = "false"
  /\ Len(wire) > 0

\* The bytes written in the first transaction of the wire log.
SentBytes ==
  LET ends == WireOps("endTransmission")
      first == CHOOSE i \in ends : \A j \in ends : i <= j
  IN [k \in 1..(first - 2) |-> wire[k + 1].a]

\* The frame of catalog entry c as the protocol defines it.
ExpectedFrame(c) ==
  <<68, 2 + c.dataLength, c.cmd % 256, c.cmd \div 256>>
    \o SubSeq(c.data, 1, c.dataLength)

\* C2: once sendMBACommand has run, the wire log starts with one transaction
\* to the given address that holds exactly 0x44, N = 2 + payloadLength, the
\* sub-command's low byte, its high byte and the payload in catalog order,
\* closed with a stop; at the call, every catalog entry it can be given has
\* payloadLength <= 8 and yields that frame; SealDevice
\* gives 44 02 30 00, DeviceType 44 02 01 00, ClearPF2 44 06 62 40 01 23 45 67.
C2_WriteFrame ==
  /\ pc = "send" => \A i \in 1..Len(MBACommandsInfo) :
       /\ MBACommandsInfo[i].dataLength <= 8
       /\ SendFrame(i) = ExpectedFrame(MBACommandsInfo[i])
       /\ \A a \in Addresses, r \in ResultCodes :
            SubSeq(SendWire(a, i, r), 1, Len(SendFrame(i)) + 2)
              = <<Begin(a)>>
                  \o [k \in 1..Len(SendFrame(i)) |->
                        Write(ExpectedFrame(MBACommandsInfo[i])[k])]
                  \o <<End(1, r)>>
  /\ sendRet # "none" =>
       LET c == MBACommandsInfo[cmdInfo]
           n == 4 + c.dataLength
       IN /\ Len(wire) >= n + 2
          /\ wire[1] = Begin(address)
          /\ \A k \in 1..n : wire[k + 1].op = "write"
          /\ wire[n + 2].op = "endTransmission" /\ wire[n + 2].a = 1
          /\ SentBytes = ExpectedFrame(c)
          /\ SentBytes[2] = 2 + c.dataLength
          /\ cmdName = Name_SealDevice => SentBytes = <<68, 2, 48, 0>>
          /\ cmdName = Name_DeviceType => SentBytes = <<68, 2, 1, 0>>
          /\ cmdName = Name_ClearPF2 =>
               SentBytes = <<68, 6, 98, 64, 1, 35, 69, 103>>

\* ClearPF2, the entry with a payload, has been sent to address 22.
C2_Witness ==
  /\ sendRet # "none"
  /\ cmdName = Name_ClearPF2
  /\ address = 22
  /\ Len(wire) >= 10
  /\ pc = "done"
\* C3: for a command whose access mode is write-only, runMBACommand sends
\* the write frame and performs no read phase at all: no second transaction,
\* no read request, no response decoding; and it returns true exactly when
\* the send reported no transport error.
C3_WriteOnlyNoRead ==
  cmdInfo # 0 /\ MBACommandsInfo[cmdInfo].access = "W" =>
    /\ ~ReadPhaseStarted
    /\ Cardinality(WireOps("beginTransmission")) <= 1
    /\ Lines("Data (hex): ") = {}
    /\ pc = "done" => (ret = "true" <=> sendRet = "true")

\* The indices of the caller's buffer that readMBACommand has written: those
\* of the copy loop and those of the reversal.
BufferWrites == (0..(copied - 1)) \cup touched

\* C4: readMBACommand never writes the caller's buffer at an index >=
\* capacity, neither while copying nor while reversing; and an answer that
\* declares 40 bytes into a capacity of 32 succeeds with the truncation
\* advisory and only the available bytes copied.
C4_NoWritePastCapacity ==
  /\ \A i \in BufferWrites : i < bufferSize
  /\ readRet # "none" /\ len = 40 /\ bufferSize = 32 /\ Len(wireRx) = 32 =>
       /\ readRet = "true"
       /\ copied = 31
       /\ Lines("Warning: Block length exceeds buffer limit. Truncation may occur.") # {}

\* DeviceType has been read and the device answered 02 01 00 0A 0B.
C5_Scenario ==
  /\ cmdName = Name_DeviceType
  /\ wireRx = <<2, 1, 0, 10, 11>>
  /\ readRet = "true"

C6_NoDataFailsAtOnce ==
  WireOps("requestFrom") # {} /\ Len(wireRx) < 3 =>
    /\ readRet = "false"
    /\ pc \in {"readDone", "done"}
    /\ Cardinality(Lines("No data available to read")) = 1
    /\ rxPos = 0
    /\ len = -1
    /\ waited = 0
    /\ \A i \in 1..Len(trail) : trail[i] \notin {"poll", "copy"}
    /\ Lines("Data (hex): ") = {}
    /\ pc = "done" => ret = "false"

\* A read request was answered with two bytes, with more still to come.
C6_Witness ==
  /\ WireOps("requestFrom") # {}
  /\ Len(wireRx) = 2
  /\ wireLate # << >>
  /\ readRet = "false"
  /\ pc = "done"
TimeoutLine == "Timeout waiting for full data block, only "

\* C7: readMBACommand always terminates.  The polling loop is left with
\* enough bytes available, or with the block time-out line and the result
\* false once more than 10 000 ms have passed since the length byte was
\* read; it is never still polling after that; and, the program running on,
\* every call of readMBACommand returns.
C7_ReadTerminates ==
  /\ [](Lines(TimeoutLine) # {} =>
          /\ waited > 10000
          /\ readRet = "false"
          /\ Available < len
          /\ Cardinality(Lines(TimeoutLine)) = 1
          /\ \A i \in 1..Len(trail) : trail[i] # "copy")
  /\ [](pc = "poll" => waited <= 10000 + POLL_DELAY_MS)
  /\ [](pc = "copy" => Available >= len \/ Available >= 31)
  /\ (pc = "read" ~> pc = "readDone")
  /\ (pc = "poll" ~> pc = "readDone")

\* A call that started when the clock was about to wrap has timed out.
C7_Witness ==
  /\ pc = "readDone"
  /\ Lines(TimeoutLine) # {}
  /\ start.hi = HALF_MOD - 1
  /\ now.hi = 0

\* The position of the stop that closes the write transaction, 0 if none.
SendEnd ==
  LET stops == {i \in WireOps("endTransmission") : wire[i].a = 1} IN
  IF stops = {} THEN 0 ELSE CHOOSE i \in stops : \A j \in stops : i <= j

\* C8: whenever sendMBACommand has returned, with success or with failure,
\* the stop that closes its transaction is followed at once by the 20 ms
\* delay, the clock has moved on by those 20 ms, and every bus operation of
\* the read phase comes after that delay.
C8_SettleDelayAfterSend ==
  sendRet # "none" =>
    /\ SendEnd # 0
    /\ SendEnd < Len(wire)
    /\ wire[SendEnd + 1] = Delay(20)
    /\ \A i \in 1..SendEnd : wire[i].op # "delay"
    /\ \A i \in ReadOps : i > SendEnd + 1
    /\ \A i \in WireOps("beginTransmission") : i = 1 \/ i > SendEnd + 1
    /\ pc = "sent" => \E t \in ClockStarts : now = ClockAfter(t, 20)

\* A send has failed and returned.
C8_Witness ==
  /\ pc = "sent"
  /\ sendRet = "false"
  /\ Last(wire) = Delay(20)

\* C9 as stated: on every path runMBACommand returns after the 100 ms delay.
C9_AlwaysSettles ==
  pc = "done" => wire # << >> /\ Last(wire) = Delay(100)

\* C9 as amended: a call that returns true (a write-only command sent, a
\* response read with or without bit-field decoding) has made the 100 ms
\* delay as its last step, once; a call that returns false (command not
\* found, send failure, receive failure) has made no 100 ms delay.
C9_SettlesOnSuccess ==
  pc = "done" =>
    IF ret = "true"
    THEN /\ Last(wire) = Delay(100)
         /\ Cardinality({i \in WireOps("delay") : wire[i].a = 100}) = 1
    ELSE /\ ret = "false"
         /\ \A i \in WireOps("delay") : wire[i].a # 100

\* A call whose receive phase failed has returned.
C9_Witness ==
  /\ pc = "done"
  /\ ret = "false"
  /\ readRet = "false"
  /\ sendRet = "true"

ErrorLines ==
  {i \in 1..Len(serial) :
     serial[i].k \in
       {"Error: Data too long to fit in transmit buffer.",
        "Error: Received NACK on transmit of address.",
        "Error: Received NACK on transmit of data.",
        "Error: Other error occurred.",
        "Error: Timeout occurred.",
        "Error: Unknown error code.",
        "No data available to read",
        TimeoutLine}}

\* C10: nothing is retried.  One invocation issues at most one write
\* transaction and at most one read sequence (one command write closed
\* without stop, one read request), and a failure is reported once: one
\* line that names the error and one line of the runner.
C10_NoRetry ==
  /\ Cardinality({i \in WireOps("endTransmission") : wire[i].a = 1}) <= 1
  /\ Cardinality({i \in WireOps("endTransmission") : wire[i].a = 0}) <= 1
  /\ Cardinality(WireOps("requestFrom")) <= 1
  /\ Cardinality(WireOps("beginTransmission")) <= 2
  /\ Cardinality({i \in 1..Len(trail) : trail[i] = "send"}) <= 1
  /\ Cardinality({i \in 1..Len(trail) : trail[i] = "readBegin"}) <= 1
  /\ Cardinality(ErrorLines) <= 1
  /\ Cardinality(Lines("Failed to send command.")
                   \cup Lines("Failed to read command response")) <= 1
  /\ sendRet = "false" \/ readRet = "false" => Cardinality(ErrorLines) = 1
  /\ pc = "done" /\ (sendRet = "false" \/ readRet = "false") =>
       Cardinality(Lines("Failed to send command.")
                     \cup Lines("Failed to read command response")) = 1

\* A call whose send failed with a NACK on the address has returned.
C10_Witness ==
  /\ pc = "done"
  /\ sendRet = "false"
  /\ Lines("Error: Received NACK on transmit of address.") # {}
  /\ Lines("Failed to send command.") # {}

\* The lines with which the runner itself reports a failure.
RunnerFailureLines ==
  Lines("Command not found: ") \cup Lines("Failed to send command.")
    \cup Lines("Failed to read command response")

\* C11: no error is swallowed.  A sendMBACommand, readMBACommand or
\* runMBACommand that has returned false has printed an error line before
\* it returned (the runner a line of its own), and one that has returned
\* true has printed no error line.
C11_NoSilentFailure ==
  /\ sendRet = "false" => ErrorLines # {}
  /\ sendRet = "true" /\ readRet = "none" =>
       ErrorLines = {} /\ (pc # "done" => RunnerFailureLines = {})
  /\ readRet = "false" => ErrorLines # {}
  /\ readRet = "true" => ErrorLines = {}
  /\ pc = "done" /\ ret = "false" =>
       /\ RunnerFailureLines # {}
       /\ cmdInfo # 0 => ErrorLines # {}
  /\ pc = "done" /\ ret = "true" =>
       ErrorLines = {} /\ RunnerFailureLines = {}
  /\ pc = "done" => ret \in {"true", "false"}

\* A call whose read request was answered with too few bytes has returned.
C11_Witness ==
  /\ pc = "done"
  /\ ret = "false"
  /\ Lines("No data available to read") # {}
  /\ Lines("Failed to read command response") # {}

\* The transactions of the wire log that are still open: begun and not
\* ended, or ended without a stop and not followed by the read request.
OpenTransactions ==
  {i \in WireOps("beginTransmission") :
     LET ends == {e \in WireOps("endTransmission") : e > i} IN
     IF ends = {} THEN TRUE
     ELSE LET e == CHOOSE x \in ends : \A y \in ends : x <= y IN
          /\ wire[e].a = 0
          /\ ~(e < Len(wire) /\ wire[e + 1].op = "requestFrom")}

\* C12: whenever sendMBACommand, readMBACommand or runMBACommand has
\* returned, with success or with a failure, none of the transactions it
\* began is still open: each was closed with a stop or completed by the
\* read request.  Stated for the build in which the access test of the
\* runner finds a write-only command, so that every read phase is one the
\* runner is meant to start.
C12_BusReleased ==
  literalsMerged /\ pc \in {"sent", "readDone", "done"} =>
    OpenTransactions = {}

\* a and b are the same string but for the case of some letters.
DiffersOnlyInCase(a, b) ==
  /\ a # b
  /\ Len(a) = Len(b)
  /\ \A k \in 1..Len(a) : a[k] = b[k] \/ SwapCase(a[k]) = b[k]

\* a is a strict prefix of b.
StrictPrefix(a, b) == Len(a) < Len(b) /\ a = SubSeq(b, 1, Len(a))

\* C13: the lookup is an exact, case-sensitive match.  It returns an entry if
\* and only if some entry's name equals the input, and then an entry of that
\* name; an input that differs from a catalog name only in letter case, or
\* that is a strict prefix or an extension of a catalog name and not a name
\* itself, or the null pointer, gives not-found.
C13_ExactMatch ==
  direct.fn = "getMBACommandInfoByName" =>
    LET nm == direct.name
        found == direct.found
    IN
    /\ found \in 0..Len(MBACommandsInfo)
    /\ found # 0 <=> nm \in CatalogNames
    /\ found # 0 => MBACommandsInfo[found].name = nm
    /\ nm = NULL => found = 0
    /\ \A n \in CatalogNames :
         /\ DiffersOnlyInCase(nm, n) /\ nm \notin CatalogNames => found = 0
         /\ StrictPrefix(nm, n) /\ nm \notin CatalogNames => found = 0
         /\ StrictPrefix(n, nm) /\ nm \notin CatalogNames => found = 0
    /\ nm = SubSeq(MBACommandsInfo[6].name, 1, 20) => found = 0

\* "permanentFailureDataReset" has been looked up.
C13_Witness ==
  /\ direct.fn = "getMBACommandInfoByName"
  /\ DiffersOnlyInCase(direct.name, MBACommandsInfo[6].name)
  /\ direct.found = 0

\* C14: the names of the catalog are pairwise distinct, and the lookup of an
\* entry's name returns that entry and no other; PF2RegisterRead and
\* ClearPF2, which share sub-command 0x4062, are found as entries 18 and 19.
C14_NamesUnique ==
  direct.fn = "getMBACommandInfoByName" =>
    /\ \A i, j \in 1..Len(MBACommandsInfo) :
         MBACommandsInfo[i].name = MBACommandsInfo[j].name => i = j
    /\ \A i \in 1..Len(MBACommandsInfo) :
         direct.name = MBACommandsInfo[i].name => direct.found = i
    /\ MBACommandsInfo[18].cmd = MBACommandsInfo[19].cmd
    /\ direct.name = Name_PF2RegisterRead => direct.found = 18
    /\ direct.name = Name_ClearPF2 => direct.found = 19

\* ClearPF2, the second entry with sub-command 0x4062, has been looked up.
C14_Witness ==
  /\ direct.fn = "getMBACommandInfoByName"
  /\ direct.name = Name_ClearPF2
  /\ direct.found = 19
  /\ MBACommandsInfo[direct.found].cmd = 16482

\* The line printBitFields printed for bit index n, in the call on its own.
BitLine(n) ==
  direct.lines[CHOOSE k \in 1..direct.count : direct.bitfields[k].bitIndex = n]

C16_NoReadPastBuffer ==
  direct.fn = "printBitFields" =>
    /\ \A r \in direct.reads : r >= 0 /\ r < direct.size
    /\ Len(direct.lines) = direct.count
    /\ \A k \in 1..direct.count :
         LET b == direct.bitfields[k]
             wrapped == ((direct.count \div 8) - (b.bitIndex \div 8) - 1) % 256
         IN /\ direct.lines[k].n = b.bitIndex
            /\ wrapped >= direct.size =>
                 /\ direct.lines[k].bytes = <<0>>
                 /\ direct.lines[k].t = b.inactiveValue
            /\ wrapped < direct.size => wrapped \in direct.reads

\* The table whose indices wrap has been decoded from two bytes FF FF: the
\* bits of byte 0 are set, those whose index wrapped to 255 are not.
C16_Witness ==
  /\ direct.fn = "printBitFields"
  /\ direct.bitfields = WideIndexBits
  /\ direct.buffer = <<255, 255>>
  /\ BitLine(7).bytes = <<1>>
  /\ BitLine(8).bytes = <<0>>
  /\ BitLine(255).bytes = <<0>>

\* C17: reverseBufferEndian is an involution.  Applied twice over the same n
\* bytes it gives the original buffer back; applied once it puts the former
\* byte n-1-i at position i for every i < n, leaves the middle byte of an
\* odd span untouched and leaves every byte from index n on as it was.
C17_ReverseInvolution ==
  direct.fn = "reverseBufferEndian" =>
    LET n == direct.size
        was == direct.original
        is == direct.buffer
    IN
    /\ Len(is) = Len(was)
    /\ direct.times = 2 => is = was
    /\ direct.times = 1 => \A i \in 0..(n - 1) : is[i + 1] = was[n - i]
    /\ \A i \in n..(Len(was) - 1) : is[i + 1] = was[i + 1]
    /\ n % 2 = 1 =>
         /\ (n - 1) \div 2 \notin direct.writes
         /\ is[(n - 1) \div 2 + 1] = was[(n - 1) \div 2 + 1]
    /\ \A w \in direct.writes : w >= 0 /\ w < n

\* The first four bytes of 1 2 3 1 2 have been reversed twice, and had
\* changed in between.
C17_Witness ==
  /\ direct.fn = "reverseBufferEndian"
  /\ direct.times = 2
  /\ direct.size = 4
  /\ direct.original = <<1, 2, 3, 1, 2>>
  /\ direct.buffer = <<1, 2, 3, 1, 2>>

\* The error line that stands for a non-zero transmission result.
ErrorClass(result) ==
  IF result \in 1..5
  THEN <<"Error: Data too long to fit in transmit buffer.",
         "Error: Received NACK on transmit of address.",
         "Error: Received NACK on transmit of data.",
         "Error: Other error occurred.",
         "Error: Timeout occurred.">>[result]
  ELSE "Error: Unknown error code."

\* C18: every non-zero transmission result has exactly one error line: 1
\* payload too large, 2 address rejected, 3 data rejected, 4 other error, 5
\* time-out, any other value unknown; and sendMBACommand returns true exactly
\* when the result is 0, and otherwise has printed that one line and
\* returned false.
C18_ResultClassified ==
  /\ pc = "send" =>
       \A r \in (-2..300) \ {0} : printMBACommandError(r) = Text(ErrorClass(r))
  /\ pc = "sent" =>
       LET result == wire[SendEnd].b IN
       /\ sendRet = "true" <=> result = 0
       /\ sendRet = "false" <=> result # 0
       /\ result = 0 => ErrorLines = {}
       /\ result # 0 =>
            /\ Cardinality(ErrorLines) = 1
            /\ Last(serial) = Text(ErrorClass(result))
            /\ Len(serial) = 2

\* A send whose transmission ended with a code of no known class has
\* returned.
C18_Witness ==
  /\ pc = "sent"
  /\ wire[SendEnd].b = 6
  /\ sendRet = "false"
  /\ Last(serial) = Text("Error: Unknown error code.")

\* The advisory lines printed so far: the capacity is above the bus layer's
\* limit, the declared length is above the capacity.
SizeAdvisory == Lines("Warning: bufferSize exceeds Wire buffer max")

TruncationAdvisory ==
  Lines("Warning: Block length exceeds buffer limit. Truncation may occur.")

\* C19: an advisory does not abort readMBACommand.  After the buffer-size
\* advisory the bus sequence is carried out, after the truncation advisory
\* the available bytes are copied and dumped and the call returns true; and
\* with or without an advisory the call returns false exactly when it has
\* printed a hard error (transport error, no data, block time-out).
C19_AdvisoriesDoNotAbort ==
  /\ bufferSize > SOFTWAREWIRE_BUFSIZE /\ pc \in {"poll", "copy", "readDone"} =>
       /\ Cardinality(SizeAdvisory) = 1
       /\ WireOps("beginTransmission") # {}
       /\ WireOps("endTransmission") # {}
  /\ bufferSize <= SOFTWAREWIRE_BUFSIZE => SizeAdvisory = {}
  /\ TruncationAdvisory # {} =>
       /\ len > bufferSize
       /\ readRet = "true"
       /\ copied = Len(wireRx) - 1
       /\ Cardinality(Lines("Data (hex): ")) = 1
       /\ \A i \in Lines("Data (hex): ") : Len(serial[i].bytes) = Min(copied, len)
  /\ readRet = "false" <=> ErrorLines # {}
  /\ readRet = "true" =>
       /\ ErrorLines = {}
       /\ Cardinality(TruncationAdvisory \cup Lines("Response length: ")) = 1
       /\ len > bufferSize <=> TruncationAdvisory # {}

\* A read into a buffer of 36 bytes of an answer that declares 40 has
\* returned true after both advisories.
C19_Witness ==
  /\ pc = "readDone"
  /\ bufferSize = 36
  /\ len = 40
  /\ SizeAdvisory # {}
  /\ TruncationAdvisory # {}
  /\ readRet = "true"
  /\ copied = 31

\* The entries of the catalog that have a bit-field schema.
WithSchema ==
  {i \in 1..Len(MBACommandsInfo) : MBACommandsInfo[i].bitfields # NoBitFields}

\* C20: every schema the catalog refers to is well formed: its bit indices
\* are pairwise distinct, the count of the catalog entry is the number of
\* entries of the table, every bit index is below the count, and the count
\* is 32 or 16.
C20_SchemasWellFormed ==
  direct.fn = "printBitFields" =>
    \A i \in WithSchema :
      LET table == MBACommandsInfo[i].bitfields
          count == MBACommandsInfo[i].bitfieldCount
      IN /\ count = Len(table)
         /\ count \in {16, 32}
         /\ count % 8 = 0
         /\ \A j \in 1..Len(table) :
              table[j].bitIndex >= 0 /\ table[j].bitIndex < count
         /\ \A j, k \in 1..Len(table) :
              table[j].bitIndex = table[k].bitIndex => j = k

\* The 16-bit schema of the catalog has been decoded: 16 lines, one for each
\* bit index 0..15.
C20_Witness ==
  /\ direct.fn = "printBitFields"
  /\ direct.bitfields = MBACommandsInfo[15].bitfields
  /\ direct.count = 16
  /\ direct.size = 2
  /\ {direct.lines[k].n : k \in 1..Len(direct.lines)} = 0..15

\* C21: on every return path of runMBACommand (command not found, send
\* failure, receive failure, success) a blank line is the last thing printed
\* before control returns, and the line before it is not blank.
C21_TrailingBlankLine ==
  pc = "done" =>
    /\ Len(serial) >= 2
    /\ Last(serial) = Blank
    /\ serial[Len(serial) - 1] # Blank
    /\ ret = "false" =>
         serial[Len(serial) - 1].k \in
           {"Command not found: ", "Failed to send command.",
            "Failed to read command response"}

\* A call whose receive phase timed out has returned.
C21_Witness ==
  /\ pc = "done"
  /\ ret = "false"
  /\ Lines(TimeoutLine) # {}
  /\ Last(serial) = Blank
  /\ serial[Len(serial) - 1] = Text("Failed to read command response")

\* The sixteen hex digits, upper case.
HexDigits == <<48, 49, 50, 51, 52, 53, 54, 55, 56, 57, 65, 66, 67, 68, 69, 70>>

\* The characters from..(from + n - 1) of a line.
Piece(chars, from, n) == SubSeq(chars, from, from + n - 1)

\* The line of 12 + 5 * size characters that holds one "0xHH " per byte.
IsHexDump(chars, bytes) ==
  /\ Len(chars) = 12 + 5 * Len(bytes)
  /\ Piece(chars, 1, 12) =
       <<68, 97, 116, 97, 32, 40, 104, 101, 120, 41, 58, 32>>
  /\ \A i \in 1..Len(bytes) :
       Piece(chars, 12 + 5 * (i - 1) + 1, 5) =
         <<48, 120, HexDigits[(bytes[i] \div 16) + 1],
           HexDigits[(bytes[i] % 16) + 1], 32>>

\* The line that holds eight characters '0' or '1' and a space per byte, the
\* first of the eight worth 128 and the last worth 1.
IsBinaryDump(chars, bytes) ==
  /\ Len(chars) = 12 + 9 * Len(bytes)
  /\ Piece(chars, 1, 12) =
       <<68, 97, 116, 97, 32, 40, 98, 105, 110, 41, 58, 32>>
  /\ \A i \in 1..Len(bytes) :
       LET bit(j) == chars[12 + 9 * (i - 1) + j] - 48 IN
       /\ \A j \in 1..8 : bit(j) \in {0, 1}
       /\ bytes[i] = 128 * bit(1) + 64 * bit(2) + 32 * bit(3) + 16 * bit(4)
                       + 8 * bit(5) + 4 * bit(6) + 2 * bit(7) + bit(8)
       /\ chars[12 + 9 * i] = 32

\* The line that holds one character per byte: the byte itself from 0x20 to
\* 0x7E, '.' for any other.
IsTextDump(chars, bytes) ==
  /\ Len(chars) = 12 + Len(bytes)
  /\ Piece(chars, 1, 12) =
       <<68, 97, 116, 97, 32, 40, 116, 120, 116, 41, 58, 32>>
  /\ \A i \in 1..Len(bytes) :
       chars[12 + i] =
         IF bytes[i] \in 32..126 THEN bytes[i] ELSE 46

\* The decimal digits of a byte.
DecimalOf(b) ==
  IF b < 10 THEN <<48 + b>>
  ELSE IF b < 100 THEN <<48 + (b \div 10), 48 + (b % 10)>>
  ELSE <<48 + (b \div 100), 48 + ((b \div 10) % 10), 48 + (b % 10)>>

RECURSIVE DecimalDumpFrom(_, _)
DecimalDumpFrom(bytes, i) ==
  IF i > Len(bytes) THEN << >>
  ELSE DecimalOf(bytes[i]) \o <<32>> \o DecimalDumpFrom(bytes, i + 1)

\* The line that holds each byte in decimal followed by a space.
IsDecimalDump(chars, bytes) ==
  chars = <<68, 97, 116, 97, 32, 40, 100, 101, 99, 41, 58, 32>>
            \o DecimalDumpFrom(bytes, 1)

\* C22: printBuffer always prints the hex dump first, one zero-padded
\* two-digit "0xHH " token per byte in buffer order; it then prints exactly
\* one more line for the decimal, the binary (8 bits per byte, most
\* significant first) and the text format (0x20..0x7E verbatim, any other
\* byte as '.'), and no more line for the hex and the mixed format.
C22_PrintBufferRendering ==
  direct.fn = "printBuffer" =>
    LET fmt == direct.displayFormat
        chars == direct.chars
        bytes == direct.buffer
    IN
    /\ Len(chars) >= 1
    /\ IsHexDump(chars[1], bytes)
    /\ fmt \in {"FORMAT_HEX", "FORMAT_MIXED"} => Len(chars) = 1
    /\ fmt \in {"FORMAT_DECIMAL", "FORMAT_BINARY", "FORMAT_TEXT"} =>
         Len(chars) = 2
    /\ fmt = "FORMAT_DECIMAL" => IsDecimalDump(chars[2], bytes)
    /\ fmt = "FORMAT_BINARY" => IsBinaryDump(chars[2], bytes)
    /\ fmt = "FORMAT_TEXT" => IsTextDump(chars[2], bytes)

\* A binary dump of a byte below 0x10 next to an unprintable one.
C22_Witness ==
  /\ direct.fn = "printBuffer"
  /\ direct.displayFormat = "FORMAT_BINARY"
  /\ direct.buffer = <<10, 127>>
  /\ Len(direct.chars) = 2
  /\ direct.chars[1] =
       <<68, 97, 116, 97, 32, 40, 104, 101, 120, 41, 58, 32,
         48, 120, 48, 65, 32, 48, 120, 55, 70, 32>>

\* C23: for every caller capacity, readMBACommand waits another round, or
\* gives up with the time-out, only while the bytes available are fewer than
\* the declared length and fewer than the capacity minus one; with capacity
\* minus one bytes available it leaves the loop for the copy.
C23_PollsBelowCapacity ==
  [][pc = "poll" /\ (waited' # waited \/ readRet' = "false") =>
       Available < len /\ Available < bufferSize - 1]_vars

\* C24: when readMBACommand has returned true, every byte that was available
\* after the length byte has been copied into the buffer in arrival order and
\* the first len positions have then been reversed: buffer[i] holds the
\* (len-1-i)-th byte received after the length byte for every i < len, the
\* bytes copied beyond len stay where the copy put them, and every byte the
\* reversal moved is one the copy of this call wrote.  Stated for the answers
\* whose declared length is within the capacity, so that the reversal stays
\* inside the buffer.
C24_CopiedThenReversed ==
  readRet = "true" /\ len <= bufferSize =>
    /\ copied = Len(wireRx) - 1
    /\ \A i \in 0..(len - 1) :
         /\ len - 1 - i < copied
         /\ Cell(mem, i) = wireRx[1 + (len - 1 - i) + 1]
    /\ \A i \in len..(copied - 1) : Cell(mem, i) = wireRx[1 + i + 1]
    /\ touched \subseteq 0..(copied - 1)

\* C25: when runMBACommand has decoded the answer to a bit-field command,
\* every bit whose byte the device did not deliver in this call (a buffer
\* position the copy did not write) is reported as unset.  Stated for the
\* answers that deliver at least the bytes they declare, so that the reversal
\* moves delivered bytes only.
C25_UndeliveredBitsUnset ==
  pc = "done" /\ ret = "true" /\ cmdInfo \in WithSchema /\ len <= copied =>
    \A i \in Lines("Bit ") :
      ByteIndex(MBACommandsInfo[cmdInfo].bitfieldCount, serial[i].n)
          \notin 0..(copied - 1)
        => serial[i].bytes = <<0>>

\* C26: in readMBACommand the read request comes right after the write of
\* the command byte 0x44 to the same address, closed without a stop, that
\* reported zero; and when that write reported a non-zero result no read
\* request follows it, the line that classifies the result is the last one
\* printed and the call returns false.
C26_RequestAfterCommandWrite ==
  /\ \A i \in WireOps("requestFrom") :
       /\ i >= 4
       /\ wire[i - 3] = Begin(wire[i].a)
       /\ wire[i - 2] = Write(68)
       /\ wire[i - 1] = End(0, 0)
  /\ \A e \in WireOps("endTransmission") :
       wire[e].a = 0 /\ wire[e].b # 0 =>
         /\ \A i \in WireOps("requestFrom") : i < e
         /\ e = Len(wire)
         /\ readRet = "false"
         /\ pc \in {"readDone", "done"}
         /\ Last(serial).k = ErrorClass(wire[e].b)

\* The command write was refused with a NACK on the address: the call has
\* returned false and the bus log ends with that write.
C26_Witness ==
  /\ pc = "readDone" /\ readRet = "false"
  /\ wire = <<Begin(11), Write(68), End(0, 2)>>
  /\ Last(serial) = Text("Error: Received NACK on transmit of address.")

\* The bit lines runMBACommand has printed, in the order printed.
BitLinesPrinted ==
  LET at == Lines("Bit ")
      first == CHOOSE i \in at : \A j \in at : i <= j
  IN IF at = {} THEN << >>
     ELSE SubSeq(serial, first, first + Cardinality(at) - 1)

\* C27: runMBACommand is deterministic and keeps nothing from one call to
\* the next: with the address, the name, the bus results and the answer of
\* the state at hand, the text it printed is the one it prints whatever the
\* memory of its buffer held before the call.
C27_IndependentOfPriorMemory ==
  pc = "done" /\ ret = "true" /\ cmdInfo \in WithSchema =>
    \A g \in GarbageBytes :
      BitLinesPrinted =
        printBitFields(mem, SOFTWAREWIRE_BUFSIZE - 2,
                       MBACommandsInfo[cmdInfo].bitfields,
                       MBACommandsInfo[cmdInfo].bitfieldCount, g)

\* C28: runMBACommand returns true exactly when the lookup found the
\* command, the send reported no transport error, and the command is
\* write-only or the receive succeeded; a bit-field schema or its decoding
\* plays no part.
C28_ReturnValue ==
  pc = "done" =>
    (ret = "true" <=>
       /\ cmdInfo # 0
       /\ sendRet = "true"
       /\ \/ MBACommandsInfo[cmdInfo].access = "W"
          \/ readRet = "true")

\* C29: for every capacity the caller passes, above 32 and from 256 on
\* included, the number of bytes readMBACommand requests from the bus is that
\* capacity, up to the limit of 32 bytes of the bus layer; narrowing the
\* capacity to 8 bits never reduces it.
C29_RequestsCapacity ==
  \A i \in WireOps("requestFrom") :
    Min(wire[i].b, 32) = Min(bufferSize, 32)

\* The answer to a bit-field command is well formed: its declared length is
\* the two echoed sub-command bytes plus one payload byte per 8 bits of the
\* schema, and all of them were delivered.
WellFormedAnswer ==
  /\ cmdInfo \in WithSchema
  /\ len = 2 + MBACommandsInfo[cmdInfo].bitfieldCount \div 8
  /\ Len(wireRx) = 1 + len

\* Bit i of the payload taken as a little-endian value: bit i mod 8 of the
\* payload byte i / 8, the payload starting after the length byte and the
\* two echoed bytes.
PayloadBit(i) == (wireRx[3 + (i \div 8) + 1] \div (2 ^ (i % 8))) % 2

C31_FailureLeavesBufferAlone ==
  readRet = "false" =>
    /\ mem = FreshMemory
    /\ BufferWrites = {}
    /\ \A i \in 1..Len(serial) :
         serial[i].k \notin {"Data (hex): ", "Data (dec): ", "Data (bin): ",
                             "Data (txt): "}

\* The block time-out with two bytes waiting in the bus layer: the answer
\* 06 50 00 and a buffer still as the caller passed it.
C31_Witness ==
  /\ readRet = "false" /\ pc = "readDone"
  /\ wireRx = <<6, 80, 0>> /\ Available = 2
  /\ Lines(TimeoutLine) # {}
  /\ mem = FreshMemory /\ copied = 0

\* The lines of the data dump printed so far.
DumpLines ==
  {i \in 1..Len(serial) :
     serial[i].k \in {"Data (hex): ", "Data (dec): ", "Data (bin): ",
                      "Data (txt): "}}

\* C32: when readMBACommand has returned true, the data dump shows the first
\* min(bytes copied, len) bytes that followed the length byte, in the order
\* the device sent them (the echoed sub-command bytes first), as they were
\* before the reversal; the bit lines come after the dump and are decoded
\* from the reversed buffer, where position x holds the byte that arrived
\* as number len-1-x.
C32_DumpBeforeReversal ==
  readRet = "true" =>
    /\ Cardinality(Lines("Data (hex): ")) = 1
    /\ \A d \in DumpLines :
         /\ serial[d].bytes = SubSeq(wireRx, 2, 1 + Min(copied, len))
         /\ \A b \in Lines("Bit ") : d < b
    /\ \A b \in Lines("Bit ") :
         LET x == ByteIndex(MBACommandsInfo[cmdInfo].bitfieldCount,
                            serial[b].n)
         IN x < len /\ len <= copied =>
              serial[b].bytes =
                <<(wireRx[len - x + 1] \div (2 ^ (serial[b].n % 8))) % 2>>

\* SafetyAlert answered 06 50 00 01 02 04 80: the dump starts with the echo
\* 50 00 and bit 0 (taken from the byte 01) is reported set.
C32_Witness ==
  /\ pc = "done" /\ ret = "true" /\ cmdInfo \in WithSchema
  /\ wireRx = <<6, 80, 0, 1, 2, 4, 128>>
  /\ \E d \in Lines("Data (hex): ") :
       serial[d].bytes = <<80, 0, 1, 2, 4, 128>>
  /\ \E b \in Lines("Bit ") : serial[b].n = 0 /\ serial[b].bytes = <<1>>
  /\ \E b \in Lines("Bit ") : serial[b].n = 31 /\ serial[b].bytes = <<1>>

\* C33: getMBACommandInfoByName, printBuffer and printBitFields have no
\* effect on program state.  A call of one of them on its own, and its
\* return, leave every variable of the engine as it was: no bus operation,
\* no byte of a buffer written, nothing a later lookup or command reads; and
\* the step of runMBACommand that decodes the answer with printBitFields
\* leaves the buffer it decodes unchanged and adds nothing to the bus log
\* but the closing delay.
C33_HelpersLeaveStateAlone ==
  [][/\ direct' # direct => UNCHANGED engineVars
     /\ pc = "readDone" /\ pc' = "done" /\ ret' = "true" =>
          /\ mem' = mem
          /\ wire' = Append(wire, Delay(100))]_vars

\* printBitFields has been called on its own between two commands: the bus
\* log is empty and the engine is where construction left it.
C33_Witness ==
  /\ direct.fn = "printBitFields"
  /\ Len(direct.lines) = 32
  /\ pc = "idle" /\ wire = << >> /\ serial = << >> /\ cmdInfo = 0

=============================================================================
